---- MODULE Spec2Model ----
(***************************************************************************)
(* Review-management data-access layer: the three repositories of          *)
(* app/repositories.py over the schema of app/models.py.  The store is the *)
(* three tables with the constraints the schema declares; a session is the *)
(* unit of work the repositories commit or roll back.                      *)
(***************************************************************************)
EXTENDS Integers, Sequences, FiniteSets, TLC

VARIABLES
    reviewers,          \* committed rows of table "reviewers"
    reviewed_objects,   \* committed rows of table "reviewed_objects"
    reviews,            \* committed rows of table "reviews"
    ids,                \* how many ids uuid4 has handed out, per table
    now,                \* the clock utc_now() reads
    tx,                 \* per session: "active" or "needs_rollback"
    identity,           \* per session: the rows its identity map holds loaded
    inflight,           \* per session: what its caller has begun but not ended
    last                \* the last repository call and what it returned

vars == <<reviewers, reviewed_objects, reviews, ids, now, tx, identity,
          inflight, last>>
tables == <<reviewers, reviewed_objects, reviews>>

(***************************************************************************)
(* Bounds of the model.                                                    *)
(***************************************************************************)
MaxIds == 2       \* ids handed out per table
MaxClock == 1     \* largest clock reading

\* The session of a caller that works alone, and the sessions of callers
\* that work at the same time.
Sessions == {"s1"}
ConcurrentSessions == {"s1", "s2"}

(***************************************************************************)
(* Optional values: None is Python's None / SQL NULL.                      *)
(***************************************************************************)
None == <<>>
Some(v) == <<v>>
Restrict(f, D) == [k \in D |-> f[k]]

(***************************************************************************)
(* Input values the callers draw from.                                     *)
(***************************************************************************)
Usernames == {Some("alice"), Some("bob")}
Emails == {Some("a@x.org"), Some("b@x.org")}
FullNames == {None, Some("Al")}

(***************************************************************************)
(* Schema: ReviewerBase / Reviewer / ReviewerUpdate.                       *)
(***************************************************************************)
ReviewerFields == {"username", "email", "full_name"}

\* Field validation of ReviewerBase: username and email are required str.
ReviewerBase_valid(data) ==
    /\ data.username # None
    /\ data.email # None

\* Reviewer with id declared default=uuid4() instead of default_factory=uuid4:
\* the default is computed once and every new row is given that one id.
\* A Reviewer whose id is the lowest one that no stored reviewer has.
Reviewer_model_validate_FreedId(data, id, c, u) ==
    [id |-> CHOOSE i \in 1..MaxIds :
               /\ \A r \in reviewers : r.id # i
               /\ \A j \in 1..(i - 1) : \E r \in reviewers : r.id = j,
     username |-> data.username, email |-> data.email,
     full_name |-> data.full_name, created_at |-> c, updated_at |-> u]

Reviewer_model_validate_ConstantId(data, id, c, u) ==
    [id |-> 1, username |-> data.username, email |-> data.email,
     full_name |-> data.full_name, created_at |-> c, updated_at |-> u]

\* Reviewer.model_validate(reviewer_data): the create shape plus the
\* default_factory values of id, created_at and updated_at.
Reviewer_model_validate(data, id, c, u) ==
    [id |-> id, username |-> data.username, email |-> data.email,
     full_name |-> data.full_name, created_at |-> c, updated_at |-> u]

\* The reviewers table without the unique index on username.
ReviewersTableOK_NoUniqueUsername(T) ==
    /\ \A r \in T : r.username # None /\ r.email # None
    /\ \A r1, r2 \in T : r1 # r2 => r1.id # r2.id /\ r1.email # r2.email

\* The reviewers table without the unique index on email.
ReviewersTableOK_NoUniqueEmail(T) ==
    /\ \A r \in T : r.username # None /\ r.email # None
    /\ \A r1, r2 \in T : r1 # r2 => r1.id # r2.id /\ r1.username # r2.username

\* Constraints of table "reviewers": primary key, NOT NULL username and
\* email, unique username, unique email.
ReviewersTableOK(T) ==
    /\ \A r \in T : r.username # None /\ r.email # None
    /\ \A r1, r2 \in T : r1 # r2 =>
          /\ r1.id # r2.id
          /\ r1.username # r2.username
          /\ r1.email # r2.email

\* The same loop on a row whose updated_at is stamped at every write.
\* An update that also moves updated_at on by one.
ApplyUpdate_Bump(row, data) ==
    [f \in DOMAIN row |->
        IF f \in DOMAIN data THEN data[f]
        ELSE IF f = "updated_at" THEN row[f] + 1
        ELSE row[f]]

ApplyUpdate_Touch(row, data) ==
    [k \in DOMAIN row |->
        IF k = "updated_at" THEN now
        ELSE IF k \in DOMAIN data THEN data[k] ELSE row[k]]

\* The same loop over model_dump() without exclude_unset: a field the
\* payload does not provide is assigned its default, None.
ApplyUpdate_Unset(row, data) ==
    [k \in DOMAIN row |->
        IF k \in DOMAIN data THEN data[k]
        ELSE IF k \in {"id", "created_at", "updated_at", "reviewer_id",
                       "reviewed_object_id"} THEN row[k]
        ELSE None]

\* The loop "for field, value in update_data.items(): setattr(row, field, value)"
\* over model_dump(exclude_unset=True): only the provided fields are assigned.
ApplyUpdate(row, data) ==
    [k \in DOMAIN row |-> IF k \in DOMAIN data THEN data[k] ELSE row[k]]

\* ReviewerUpdate: every field is optional and None is accepted.
ReviewerUpdate_valid(data) == TRUE

ReviewerCreates ==
    [username : Usernames \cup {None}, email : Emails, full_name : FullNames]

ReviewerUpdates ==
    { Restrict(d, D) :
        d \in [username : Usernames \cup {None}, email : Emails,
               full_name : FullNames],
        D \in {F \in SUBSET ReviewerFields : Cardinality(F) <= 2} }

(***************************************************************************)
(* Schema: ReviewedObjectBase / ReviewedObject / ReviewedObjectUpdate.     *)
(***************************************************************************)
ObjectTypes == {Some("restaurant"), Some("movie")}
ObjectIds == {Some("ext1"), Some("ext2")}
ObjectNames == {Some("Name")}
ObjectDescriptions == {None, Some("text")}
ObjectMetadata == {None}

ReviewedObjectFields ==
    {"object_type", "object_id", "object_name", "object_description",
     "object_metadata"}

\* Field validation of ReviewedObjectBase: type, id and name are required str.
ReviewedObjectBase_valid(data) ==
    /\ data.object_type # None
    /\ data.object_id # None
    /\ data.object_name # None

ReviewedObject_model_validate(data, id, c, u) ==
    [id |-> id, object_type |-> data.object_type, object_id |-> data.object_id,
     object_name |-> data.object_name,
     object_description |-> data.object_description,
     object_metadata |-> data.object_metadata,
     created_at |-> c, updated_at |-> u]

\* The reviewed_objects table with the unique constraint on object_id alone.
ReviewedObjectsTableOK_UniqueIdOnly(T) ==
    /\ \A r \in T : r.object_type # None /\ r.object_id # None
                    /\ r.object_name # None
    /\ \A r1, r2 \in T : r1 # r2 =>
          r1.id # r2.id /\ r1.object_id # r2.object_id

\* Constraints of table "reviewed_objects": primary key, NOT NULL type, id
\* and name, and uq_object_type_id on (object_type, object_id).
ReviewedObjectsTableOK(T) ==
    /\ \A r \in T : r.object_type # None /\ r.object_id # None
                    /\ r.object_name # None
    /\ \A r1, r2 \in T : r1 # r2 =>
          /\ r1.id # r2.id
          /\ <<r1.object_type, r1.object_id>> # <<r2.object_type, r2.object_id>>

\* ReviewedObjectUpdate: every field is optional and None is accepted.
ReviewedObjectUpdate_valid(data) == TRUE

ReviewedObjectCreates ==
    [object_type : ObjectTypes, object_id : ObjectIds,
     object_name : ObjectNames, object_description : ObjectDescriptions,
     object_metadata : ObjectMetadata]

ReviewedObjectUpdates ==
    { Restrict(d, D) :
        d \in [object_type : ObjectTypes \cup {None}, object_id : ObjectIds,
               object_name : ObjectNames, object_description : ObjectDescriptions,
               object_metadata : ObjectMetadata],
        D \in {F \in SUBSET ReviewedObjectFields :
                  Cardinality(F) <= 1 \/ F = {"object_type", "object_id"}} }

(***************************************************************************)
(* Schema: ReviewBase / Review / ReviewCreate / ReviewUpdate.              *)
(***************************************************************************)
Texts == {None, Some("fine")}
Stars == {None, Some(-1), Some(0), Some(5), Some(6)}
Thumbs == {None, Some("up"), Some("down"), Some("sideways")}
RowIds == 1..MaxIds

ReviewFields == {"text_review", "star_rating", "thumbs_rating"}

\* Field validation of ReviewBase and of ReviewUpdate, applied to the fields a
\* shape carries: star_rating has ge=0, le=5 and thumbs_rating max_length=10.
ReviewBase_valid(data) ==
    /\ "star_rating" \in DOMAIN data /\ data.star_rating # None
          => data.star_rating[1] >= 0 /\ data.star_rating[1] <= 5
    /\ "thumbs_rating" \in DOMAIN data /\ data.thumbs_rating # None
          => Len(data.thumbs_rating[1]) <= 10

\* ReviewUpdate declares the same two field constraints.
ReviewUpdate_valid(data) == ReviewBase_valid(data)

Review_model_validate(data, id, c, u) ==
    [id |-> id, reviewer_id |-> data.reviewer_id,
     reviewed_object_id |-> data.reviewed_object_id,
     text_review |-> data.text_review, star_rating |-> data.star_rating,
     thumbs_rating |-> data.thumbs_rating, created_at |-> c, updated_at |-> u]

\* check_star_rating_range: a NULL star_rating passes the check.
check_star_rating_range(r) ==
    r.star_rating # None => r.star_rating[1] >= 0 /\ r.star_rating[1] <= 5

\* The reviews table without check_thumbs_rating_values.
check_thumbs_rating_values_AnyValue(r) == TRUE

\* check_thumbs_rating_values
check_thumbs_rating_values(r) ==
    r.thumbs_rating \in {Some("up"), Some("down")} \/ r.thumbs_rating = None

\* The reviews table without check_review_content_exists.
check_review_content_exists_Missing(r) == TRUE

\* check_review_content_exists
check_review_content_exists(r) ==
    r.text_review # None \/ r.star_rating # None \/ r.thumbs_rating # None

\* The reviews table without uq_reviewer_object.
ReviewsTableOK_NoUniquePair(T) ==
    /\ \A r \in T :
          /\ r.reviewer_id # None /\ r.reviewed_object_id # None
          /\ r.star_rating # None
                => r.star_rating[1] >= 0 /\ r.star_rating[1] <= 5
          /\ r.thumbs_rating \in {Some("up"), Some("down"), None}
          /\ r.text_review # None \/ r.star_rating # None
                \/ r.thumbs_rating # None
    /\ \A r1, r2 \in T : r1 # r2 => r1.id # r2.id

\* Constraints of table "reviews": primary key, NOT NULL foreign keys, the
\* three check constraints and uq_reviewer_object.
ReviewsTableOK(T) ==
    /\ \A r \in T :
          /\ r.reviewer_id # None /\ r.reviewed_object_id # None
          /\ check_star_rating_range(r)
          /\ check_thumbs_rating_values(r)
          /\ check_review_content_exists(r)
    /\ \A r1, r2 \in T : r1 # r2 =>
          /\ r1.id # r2.id
          /\ <<r1.reviewer_id, r1.reviewed_object_id>>
                # <<r2.reviewer_id, r2.reviewed_object_id>>

\* A storage engine that does not enforce foreign keys.
ForeignKeysOK_NotEnforced(R, O, V) == TRUE

\* foreign_key="reviewers.id" and foreign_key="reviewed_objects.id"
ForeignKeysOK(R, O, V) ==
    \A r \in V :
        /\ r.reviewer_id # None => \E p \in R : Some(p.id) = r.reviewer_id
        /\ r.reviewed_object_id # None
              => \E p \in O : Some(p.id) = r.reviewed_object_id

\* What the storage engine accepts at commit.
StoreOK(R, O, V) ==
    /\ ReviewersTableOK(R)
    /\ ReviewedObjectsTableOK(O)
    /\ ReviewsTableOK(V)
    /\ ForeignKeysOK(R, O, V)

\* The constraints that the rows R, O, V break, each by the name the storage
\* engine reports it under.
Named(name, broken) == IF broken THEN {name} ELSE {}

Violations(R, O, V) ==
    Named("not-null constraint",
          \/ \E r \in R : r.username = None \/ r.email = None
          \/ \E r \in O : r.object_type = None \/ r.object_id = None
                           \/ r.object_name = None
          \/ \E r \in V : r.reviewer_id = None \/ r.reviewed_object_id = None)
    \cup Named("primary key",
               \E T \in {R, O, V} : \E r1, r2 \in T : r1 # r2 /\ r1.id = r2.id)
    \cup Named("ix_reviewers_username",
               \E r1, r2 \in R : r1 # r2 /\ r1.username = r2.username)
    \cup Named("ix_reviewers_email",
               \E r1, r2 \in R : r1 # r2 /\ r1.email = r2.email)
    \cup Named("uq_object_type_id",
               \* the table refuses rows of which no column is null and no
               \* id repeats: its unique constraint is what refuses them
               /\ ~ReviewedObjectsTableOK(O)
               /\ \A r \in O : r.object_type # None /\ r.object_id # None
                                /\ r.object_name # None
               /\ \A r1, r2 \in O : r1 # r2 => r1.id # r2.id)
    \cup Named("check_star_rating_range",
               \E r \in V : ~check_star_rating_range(r))
    \cup Named("check_thumbs_rating_values",
               \E r \in V : ~check_thumbs_rating_values(r))
    \cup Named("check_review_content_exists",
               \E r \in V : ~check_review_content_exists(r))
    \cup Named("uq_reviewer_object",
               \E r1, r2 \in V : /\ r1 # r2
                                 /\ r1.reviewer_id = r2.reviewer_id
                                 /\ r1.reviewed_object_id = r2.reviewed_object_id)
    \cup Named("reviews_reviewer_id_fkey",
               \E r \in V : /\ r.reviewer_id # None
                            /\ \A q \in R : Some(q.id) # r.reviewer_id)
    \cup Named("reviews_reviewed_object_id_fkey",
               \E r \in V : /\ r.reviewed_object_id # None
                            /\ \A q \in O : Some(q.id) # r.reviewed_object_id)

\* The order in which the engine meets the constraints while it carries out
\* one statement: NOT NULL and the checks on the new tuple, then the unique
\* indexes, then the foreign keys.
ReportOrder ==
    << "not-null constraint", "check_review_content_exists",
       "check_star_rating_range", "check_thumbs_rating_values", "primary key",
       "ix_reviewers_email", "ix_reviewers_username", "uq_object_type_id",
       "uq_reviewer_object", "reviews_reviewer_id_fkey",
       "reviews_reviewed_object_id_fkey" >>

\* str(e) of the IntegrityError: the engine stops at the first constraint
\* that the statement breaks and reports that one.
Report(R, O, V) ==
    LET first == CHOOSE i \in DOMAIN ReportOrder :
                    /\ ReportOrder[i] \in Violations(R, O, V)
                    /\ \A j \in 1..(i - 1) :
                          ReportOrder[j] \notin Violations(R, O, V)
    IN  ReportOrder[first]

ReviewCreates ==
    [reviewer_id : {Some(1)},
     reviewed_object_id : {Some(1), Some(2)},
     text_review : Texts, star_rating : Stars, thumbs_rating : Thumbs]

ReviewUpdates ==
    { Restrict(d, D) :
        d \in [text_review : Texts, star_rating : Stars, thumbs_rating : Thumbs],
        D \in {F \in SUBSET ReviewFields : Cardinality(F) <= 2} }

\* A ReviewUpdate that keeps the keys it does not declare.
ReviewUpdate_model_validate_KeepsExtra(payload) == payload

\* ReviewUpdate(**payload): the model declares the three content fields and
\* ignores every other key of the payload.
ReviewUpdate_model_validate(payload) ==
    Restrict(payload, DOMAIN payload \cap ReviewFields)

\* A lookup that ignores the primary key it is given.
Get_AnyRow(T, id) == IF T # {} THEN Some(CHOOSE r \in T : TRUE) ELSE None

\* session.get(Model, id): the row with that primary key, or None.
Get(T, id) == IF \E r \in T : r.id = id
              THEN Some(CHOOSE r \in T : r.id = id) ELSE None

\* A relationship declared with cascade="all, delete-orphan": deleting the
\* parent deletes its reviews with it.
Orphaned_Cascade(V, field, id) == { r \in V : r[field] # Some(id) }

\* Relationship(back_populates=...) without a delete cascade: deleting the
\* parent sets the foreign key of each of its reviews to NULL in the flush.
Orphaned(V, field, id) ==
    { IF r[field] = Some(id) THEN [r EXCEPT ![field] = None] ELSE r : r \in V }

(***************************************************************************)
(* Results of a call.                                                      *)
(***************************************************************************)
Call(op, repo, s, id, data, outcome, message, ret) ==
    [op |-> op, repo |-> repo, session |-> s, id |-> id, data |-> data,
     outcome |-> outcome, message |-> message, ret |-> ret]

ValueError_message_WithoutCause(failed, e) == failed

\* f"... failed: {e}", e the IntegrityError of the storage engine
ValueError_message(failed, e) == failed \o ": " \o e

NoCall == Call("none", "none", "none", None, None, "none", "", None)

\* A session whose flush failed and was not rolled back refuses every
\* statement with PendingRollbackError.
Usable(s) == tx[s] = "active"

(***************************************************************************)
(* The identity map of a session: the objects it has loaded and that are   *)
(* not expired.  commit() and rollback() expire every object.              *)
(***************************************************************************)
Expired == [repo \in {"Reviewer", "ReviewedObject", "Review"} |-> {}]

Cached(s, repo, id) == {r \in identity[s][repo] : r.id = id}

\* session.get(Model, id): the object of the identity map when it holds one
\* that is not expired, without a statement; else the row SELECTed by
\* primary key, or None.
session_get(s, repo, T, id) ==
    IF Cached(s, repo, id) # {}
    THEN Some(CHOOSE r \in Cached(s, repo, id) : TRUE)
    ELSE Get(T, id)

\* The identity map of s once the object ret (or nothing) has been returned
\* to the caller by session s.
Loaded(s, repo, ret) ==
    IF ret = None \/ Cached(s, repo, ret[1].id) # {}
    THEN identity
    ELSE [identity EXCEPT ![s][repo] = @ \cup {ret[1]}]

\* The identity map of s after a commit (every object expired) followed by
\* session.refresh(row).
Refreshed(s, repo, row) ==
    [identity EXCEPT ![s] = [Expired EXCEPT ![repo] = {row}]]

session_rollback_Missing(s) == [tx EXCEPT ![s] = "needs_rollback"]

\* self.session.rollback(): the transaction that failed is over and the
\* session begins a new one with its next statement.
session_rollback(s) == [tx EXCEPT ![s] = "active"]

\* The identity map of s after commit() or rollback() alone.
ExpireAll(s) == [identity EXCEPT ![s] = Expired]

Init ==
    /\ reviewers = {}
    /\ reviewed_objects = {}
    /\ reviews = {}
    /\ ids = [reviewer |-> 0, object |-> 0, review |-> 0]
    /\ now = 0
    /\ tx = [s \in ConcurrentSessions |-> "active"]
    /\ identity = [s \in ConcurrentSessions |-> Expired]
    /\ inflight = [s \in ConcurrentSessions |-> None]
    /\ last = NoCall

(***************************************************************************)
(* ReviewerRepository                                                      *)
(***************************************************************************)
ReviewerRepository_create(s, data, d) ==
    /\ ids.reviewer < MaxIds
    /\ UNCHANGED inflight
    /\ IF ~ReviewerBase_valid(data)
       THEN \* the create shape is rejected by field validation
            /\ last' = Call("create", "Reviewer", s, None, data,
                            "ValidationError", "", None)
            /\ UNCHANGED <<tables, ids, now, tx, identity>>
       ELSE /\ now + d <= MaxClock
            /\ now' = now + d
            /\ ids' = [ids EXCEPT !.reviewer = @ + 1]
            /\ LET row == Reviewer_model_validate(data, ids.reviewer + 1, now, now + d)
                   T == reviewers \cup {row}
               IN  IF ~Usable(s)
                   THEN \* session.commit() refuses
                        /\ last' = Call("create", "Reviewer", s, None, data,
                                        "PendingRollbackError", "", None)
                        /\ UNCHANGED <<tables, tx, identity>>
                   ELSE IF StoreOK(T, reviewed_objects, reviews)
                   THEN \* commit, refresh, return
                        /\ reviewers' = T
                        /\ identity' = Refreshed(s, "Reviewer", row)
                        /\ last' = Call("create", "Reviewer", s, None, data,
                                        "returned", "", Some(row))
                        /\ UNCHANGED <<reviewed_objects, reviews, tx>>
                   ELSE \* IntegrityError: rollback, raise ValueError
                        /\ identity' = ExpireAll(s)
                        /\ LET e == Report(T, reviewed_objects, reviews) IN
                              last' = Call("create", "Reviewer", s, None, data,
                                           "ValueError",
                                           ValueError_message(
                                              "Reviewer creation failed", e),
                                           None)
                        /\ tx' = session_rollback(s)
                        /\ UNCHANGED tables

ReviewerRepository_get_by_id(s, id) ==
    /\ UNCHANGED <<tables, ids, now, tx, inflight>>
    /\ IF Usable(s)
       THEN LET ret == session_get(s, "Reviewer", reviewers, id)
            IN  /\ identity' = Loaded(s, "Reviewer", ret)
                /\ last' = Call("get_by_id", "Reviewer", s, Some(id), None,
                                "returned", "", ret)
       ELSE /\ last' = Call("get_by_id", "Reviewer", s, Some(id), None,
                            "PendingRollbackError", "", None)
            /\ UNCHANGED identity

ReviewerRepository_update(s, id, data) ==
    /\ UNCHANGED <<ids, now, inflight>>
    /\ IF ~ReviewerUpdate_valid(data)
       THEN \* the update shape is rejected by field validation
            /\ last' = Call("update", "Reviewer", s, Some(id), data,
                            "ValidationError", "", None)
            /\ UNCHANGED <<tables, tx, identity>>
       ELSE IF ~Usable(s)
       THEN /\ last' = Call("update", "Reviewer", s, Some(id), data,
                            "PendingRollbackError", "", None)
            /\ UNCHANGED <<tables, tx, identity>>
       ELSE IF session_get(s, "Reviewer", reviewers, id) = None
       THEN /\ last' = Call("update", "Reviewer", s, Some(id), data,
                            "returned", "", None)
            /\ UNCHANGED <<tables, tx, identity>>
       ELSE LET old == session_get(s, "Reviewer", reviewers, id)[1]
                \* setattr records a change only where the value differs
                changed == {f \in DOMAIN data : data[f] # old[f]}
                \* the row the UPDATE ... WHERE id = :id addresses
                cur == Get(reviewers, id)
            IN  IF cur = None
                THEN \* the row is gone from the table: the UPDATE matches no
                     \* row (StaleDataError in the flush) or, with nothing to
                     \* write, refresh() finds no row (InvalidRequestError)
                     /\ last' = Call("update", "Reviewer", s, Some(id), data,
                                     IF changed = {} THEN "InvalidRequestError"
                                     ELSE "StaleDataError", "", None)
                     /\ tx' = IF changed = {} THEN tx
                              ELSE [tx EXCEPT ![s] = "needs_rollback"]
                     /\ identity' = ExpireAll(s)
                     /\ UNCHANGED tables
                ELSE LET row == ApplyUpdate(cur[1], Restrict(data, changed))
                         T == (reviewers \ {cur[1]}) \cup {row}
                     IN  IF StoreOK(T, reviewed_objects, reviews)
                         THEN \* commit, refresh, return
                              /\ reviewers' = T
                              /\ identity' = Refreshed(s, "Reviewer", row)
                              /\ last' = Call("update", "Reviewer", s, Some(id),
                                              data, "returned", "", Some(row))
                              /\ UNCHANGED <<reviewed_objects, reviews, tx>>
                         ELSE \* IntegrityError: rollback, raise ValueError
                              /\ identity' = ExpireAll(s)
                              /\ LET e == Report(T, reviewed_objects, reviews) IN
                                    last' = Call("update", "Reviewer", s,
                                                 Some(id), data, "ValueError",
                                                 ValueError_message(
                                                    "Reviewer update failed", e),
                                                 None)
                              /\ tx' = session_rollback(s)
                              /\ UNCHANGED tables

ReviewerRepository_delete(s, id) ==
    /\ UNCHANGED <<ids, now, inflight>>
    /\ IF ~Usable(s)
       THEN /\ last' = Call("delete", "Reviewer", s, Some(id), None,
                            "PendingRollbackError", "", None)
            /\ UNCHANGED <<tables, tx, identity>>
       ELSE IF session_get(s, "Reviewer", reviewers, id) = None
       THEN /\ last' = Call("delete", "Reviewer", s, Some(id), None,
                            "returned", "", Some(FALSE))
            /\ UNCHANGED <<tables, tx, identity>>
       ELSE LET T == reviewers \ {r \in reviewers : r.id = id}
                V == Orphaned(reviews, "reviewer_id", id)
            IN  IF StoreOK(T, reviewed_objects, V)
                THEN \* commit; a DELETE that matches no row only warns
                     /\ reviewers' = T
                     /\ reviews' = V
                     /\ identity' = ExpireAll(s)
                     /\ last' = Call("delete", "Reviewer", s, Some(id), None,
                                     "returned", "", Some(TRUE))
                     /\ UNCHANGED <<reviewed_objects, tx>>
                ELSE \* the flush fails inside commit() and nothing catches it
                     /\ tx' = [tx EXCEPT ![s] = "needs_rollback"]
                     /\ identity' = ExpireAll(s)
                     /\ last' = Call("delete", "Reviewer", s, Some(id), None,
                                     "IntegrityError", "", None)
                     /\ UNCHANGED tables

(***************************************************************************)
(* ReviewedObjectRepository                                                *)
(***************************************************************************)
ReviewedObjectRepository_create(s, data, d) ==
    /\ ids.object < MaxIds
    /\ UNCHANGED inflight
    /\ IF ~ReviewedObjectBase_valid(data)
       THEN \* the create shape is rejected by field validation
            /\ last' = Call("create", "ReviewedObject", s, None, data,
                            "ValidationError", "", None)
            /\ UNCHANGED <<tables, ids, now, tx, identity>>
       ELSE /\ now + d <= MaxClock
            /\ now' = now + d
            /\ ids' = [ids EXCEPT !.object = @ + 1]
            /\ LET row == ReviewedObject_model_validate(data, ids.object + 1, now, now + d)
                   T == reviewed_objects \cup {row}
               IN  IF ~Usable(s)
                   THEN \* session.commit() refuses
                        /\ last' = Call("create", "ReviewedObject", s, None, data,
                                        "PendingRollbackError", "", None)
                        /\ UNCHANGED <<tables, tx, identity>>
                   ELSE IF StoreOK(reviewers, T, reviews)
                   THEN \* commit, refresh, return
                        /\ reviewed_objects' = T
                        /\ identity' = Refreshed(s, "ReviewedObject", row)
                        /\ last' = Call("create", "ReviewedObject", s, None, data,
                                        "returned", "", Some(row))
                        /\ UNCHANGED <<reviewers, reviews, tx>>
                   ELSE \* IntegrityError: rollback, raise ValueError
                        /\ identity' = ExpireAll(s)
                        /\ LET e == Report(reviewers, T, reviews) IN
                              last' = Call("create", "ReviewedObject", s, None, data,
                                           "ValueError",
                                           ValueError_message(
                                              "Reviewed object creation failed", e),
                                           None)
                        /\ tx' = session_rollback(s)
                        /\ UNCHANGED tables

ReviewedObjectRepository_get_by_id(s, id) ==
    /\ UNCHANGED <<tables, ids, now, tx, inflight>>
    /\ IF Usable(s)
       THEN LET ret == session_get(s, "ReviewedObject", reviewed_objects, id)
            IN  /\ identity' = Loaded(s, "ReviewedObject", ret)
                /\ last' = Call("get_by_id", "ReviewedObject", s, Some(id), None,
                                "returned", "", ret)
       ELSE /\ last' = Call("get_by_id", "ReviewedObject", s, Some(id), None,
                            "PendingRollbackError", "", None)
            /\ UNCHANGED identity

ReviewedObjectRepository_update(s, id, data) ==
    /\ UNCHANGED <<ids, now, inflight>>
    /\ IF ~ReviewedObjectUpdate_valid(data)
       THEN \* the update shape is rejected by field validation
            /\ last' = Call("update", "ReviewedObject", s, Some(id), data,
                            "ValidationError", "", None)
            /\ UNCHANGED <<tables, tx, identity>>
       ELSE IF ~Usable(s)
       THEN /\ last' = Call("update", "ReviewedObject", s, Some(id), data,
                            "PendingRollbackError", "", None)
            /\ UNCHANGED <<tables, tx, identity>>
       ELSE IF session_get(s, "ReviewedObject", reviewed_objects, id) = None
       THEN /\ last' = Call("update", "ReviewedObject", s, Some(id), data,
                            "returned", "", None)
            /\ UNCHANGED <<tables, tx, identity>>
       ELSE LET old == session_get(s, "ReviewedObject", reviewed_objects, id)[1]
                \* setattr records a change only where the value differs
                changed == {f \in DOMAIN data : data[f] # old[f]}
                \* the row the UPDATE ... WHERE id = :id addresses
                cur == Get(reviewed_objects, id)
            IN  IF cur = None
                THEN \* the row is gone from the table: the UPDATE matches no
                     \* row (StaleDataError in the flush) or, with nothing to
                     \* write, refresh() finds no row (InvalidRequestError)
                     /\ last' = Call("update", "ReviewedObject", s, Some(id), data,
                                     IF changed = {} THEN "InvalidRequestError"
                                     ELSE "StaleDataError", "", None)
                     /\ tx' = IF changed = {} THEN tx
                              ELSE [tx EXCEPT ![s] = "needs_rollback"]
                     /\ identity' = ExpireAll(s)
                     /\ UNCHANGED tables
                ELSE LET row == ApplyUpdate(cur[1], Restrict(data, changed))
                         T == (reviewed_objects \ {cur[1]}) \cup {row}
                     IN  IF StoreOK(reviewers, T, reviews)
                         THEN \* commit, refresh, return
                              /\ reviewed_objects' = T
                              /\ identity' = Refreshed(s, "ReviewedObject", row)
                              /\ last' = Call("update", "ReviewedObject", s, Some(id),
                                              data, "returned", "", Some(row))
                              /\ UNCHANGED <<reviewers, reviews, tx>>
                         ELSE \* IntegrityError: rollback, raise ValueError
                              /\ identity' = ExpireAll(s)
                              /\ LET e == Report(reviewers, T, reviews) IN
                                    last' = Call("update", "ReviewedObject", s,
                                                 Some(id), data, "ValueError",
                                                 ValueError_message(
                                                    "Reviewed object update failed", e),
                                                 None)
                              /\ tx' = session_rollback(s)
                              /\ UNCHANGED tables

ReviewedObjectRepository_delete(s, id) ==
    /\ UNCHANGED <<ids, now, inflight>>
    /\ IF ~Usable(s)
       THEN /\ last' = Call("delete", "ReviewedObject", s, Some(id), None,
                            "PendingRollbackError", "", None)
            /\ UNCHANGED <<tables, tx, identity>>
       ELSE IF session_get(s, "ReviewedObject", reviewed_objects, id) = None
       THEN /\ last' = Call("delete", "ReviewedObject", s, Some(id), None,
                            "returned", "", Some(FALSE))
            /\ UNCHANGED <<tables, tx, identity>>
       ELSE LET T == reviewed_objects \ {r \in reviewed_objects : r.id = id}
                V == Orphaned(reviews, "reviewed_object_id", id)
            IN  IF StoreOK(reviewers, T, V)
                THEN \* commit; a DELETE that matches no row only warns
                     /\ reviewed_objects' = T
                     /\ reviews' = V
                     /\ identity' = ExpireAll(s)
                     /\ last' = Call("delete", "ReviewedObject", s, Some(id), None,
                                     "returned", "", Some(TRUE))
                     /\ UNCHANGED <<reviewers, tx>>
                ELSE \* the flush fails inside commit() and nothing catches it
                     /\ tx' = [tx EXCEPT ![s] = "needs_rollback"]
                     /\ identity' = ExpireAll(s)
                     /\ last' = Call("delete", "ReviewedObject", s, Some(id), None,
                                     "IntegrityError", "", None)
                     /\ UNCHANGED tables

(***************************************************************************)
(* ReviewRepository                                                        *)
(***************************************************************************)
\* The method as its caller sees it: the caller's own position is left to
\* the caller.
ReviewRepository_create_call(s, data, d) ==
    /\ ids.review < MaxIds
    /\ IF ~ReviewBase_valid(data)
       THEN \* the create shape is rejected by field validation
            /\ last' = Call("create", "Review", s, None, data,
                            "ValidationError", "", None)
            /\ UNCHANGED <<tables, ids, now, tx, identity>>
       ELSE /\ now + d <= MaxClock
            /\ now' = now + d
            /\ ids' = [ids EXCEPT !.review = @ + 1]
            /\ LET row == Review_model_validate(data, ids.review + 1, now, now + d)
                   T == reviews \cup {row}
               IN  IF ~Usable(s)
                   THEN \* session.commit() refuses
                        /\ last' = Call("create", "Review", s, None, data,
                                        "PendingRollbackError", "", None)
                        /\ UNCHANGED <<tables, tx, identity>>
                   ELSE IF StoreOK(reviewers, reviewed_objects, T)
                   THEN \* commit, refresh, return
                        /\ reviews' = T
                        /\ identity' = Refreshed(s, "Review", row)
                        /\ last' = Call("create", "Review", s, None, data,
                                        "returned", "", Some(row))
                        /\ UNCHANGED <<reviewers, reviewed_objects, tx>>
                   ELSE \* IntegrityError: rollback, raise ValueError
                        /\ identity' = ExpireAll(s)
                        /\ LET e == Report(reviewers, reviewed_objects, T) IN
                              last' = Call("create", "Review", s, None, data,
                                           "ValueError",
                                           ValueError_message(
                                              "Review creation failed", e),
                                           None)
                        /\ tx' = session_rollback(s)
                        /\ UNCHANGED tables

ReviewRepository_create(s, data, d) ==
    /\ ReviewRepository_create_call(s, data, d)
    /\ UNCHANGED inflight

ReviewRepository_get_by_id(s, id) ==
    /\ UNCHANGED <<tables, ids, now, tx, inflight>>
    /\ IF Usable(s)
       THEN LET ret == session_get(s, "Review", reviews, id)
            IN  /\ identity' = Loaded(s, "Review", ret)
                /\ last' = Call("get_by_id", "Review", s, Some(id), None,
                                "returned", "", ret)
       ELSE /\ last' = Call("get_by_id", "Review", s, Some(id), None,
                            "PendingRollbackError", "", None)
            /\ UNCHANGED identity

ReviewRepository_update(s, id, data) ==
    /\ UNCHANGED <<ids, now, inflight>>
    /\ IF ~ReviewUpdate_valid(data)
       THEN \* the update shape is rejected by field validation
            /\ last' = Call("update", "Review", s, Some(id), data,
                            "ValidationError", "", None)
            /\ UNCHANGED <<tables, tx, identity>>
       ELSE IF ~Usable(s)
       THEN /\ last' = Call("update", "Review", s, Some(id), data,
                            "PendingRollbackError", "", None)
            /\ UNCHANGED <<tables, tx, identity>>
       ELSE IF session_get(s, "Review", reviews, id) = None
       THEN /\ last' = Call("update", "Review", s, Some(id), data,
                            "returned", "", None)
            /\ UNCHANGED <<tables, tx, identity>>
       ELSE LET old == session_get(s, "Review", reviews, id)[1]
                \* setattr records a change only where the value differs
                changed == {f \in DOMAIN data : data[f] # old[f]}
                \* the row the UPDATE ... WHERE id = :id addresses
                cur == Get(reviews, id)
            IN  IF cur = None
                THEN \* the row is gone from the table: the UPDATE matches no
                     \* row (StaleDataError in the flush) or, with nothing to
                     \* write, refresh() finds no row (InvalidRequestError)
                     /\ last' = Call("update", "Review", s, Some(id), data,
                                     IF changed = {} THEN "InvalidRequestError"
                                     ELSE "StaleDataError", "", None)
                     /\ tx' = IF changed = {} THEN tx
                              ELSE [tx EXCEPT ![s] = "needs_rollback"]
                     /\ identity' = ExpireAll(s)
                     /\ UNCHANGED tables
                ELSE LET row == ApplyUpdate(cur[1], Restrict(data, changed))
                         T == (reviews \ {cur[1]}) \cup {row}
                     IN  IF StoreOK(reviewers, reviewed_objects, T)
                         THEN \* commit, refresh, return
                              /\ reviews' = T
                              /\ identity' = Refreshed(s, "Review", row)
                              /\ last' = Call("update", "Review", s, Some(id),
                                              data, "returned", "", Some(row))
                              /\ UNCHANGED <<reviewers, reviewed_objects, tx>>
                         ELSE \* IntegrityError: rollback, raise ValueError
                              /\ identity' = ExpireAll(s)
                              /\ LET e == Report(reviewers, reviewed_objects, T) IN
                                    last' = Call("update", "Review", s,
                                                 Some(id), data, "ValueError",
                                                 ValueError_message(
                                                    "Review update failed", e),
                                                 None)
                              /\ tx' = session_rollback(s)
                              /\ UNCHANGED tables

\* session.delete(review) without the commit that follows it.
ReviewRepository_delete_NoCommit(s, id) ==
    /\ UNCHANGED <<ids, now, tx, tables, identity, inflight>>
    /\ last' = IF ~Usable(s)
               THEN Call("delete", "Review", s, Some(id), None,
                         "PendingRollbackError", "", None)
               ELSE Call("delete", "Review", s, Some(id), None, "returned", "",
                         Some(session_get(s, "Review", reviews, id) # None))

ReviewRepository_delete(s, id) ==
    /\ UNCHANGED <<ids, now, tx, inflight>>
    /\ IF ~Usable(s)
       THEN /\ last' = Call("delete", "Review", s, Some(id), None,
                            "PendingRollbackError", "", None)
            /\ UNCHANGED <<tables, identity>>
       ELSE IF session_get(s, "Review", reviews, id) = None
       THEN /\ last' = Call("delete", "Review", s, Some(id), None,
                            "returned", "", Some(FALSE))
            /\ UNCHANGED <<tables, identity>>
       ELSE \* commit; a DELETE that matches no row only warns
            /\ reviews' = reviews \ {r \in reviews : r.id = id}
            /\ identity' = ExpireAll(s)
            /\ last' = Call("delete", "Review", s, Some(id), None,
                            "returned", "", Some(TRUE))
            /\ UNCHANGED <<reviewers, reviewed_objects>>

(***************************************************************************)
(* Lookups by natural key: session.exec(select(...).where(...)).first().   *)
(***************************************************************************)
\* The object the session hands out for a row a SELECT returned: the one its
\* identity map already holds for that primary key, as it was loaded, else a
\* new one with the row's values.
Identified(s, repo, r) ==
    IF Cached(s, repo, r.id) # {} THEN CHOOSE c \in Cached(s, repo, r.id) : TRUE
    ELSE r

\* exec(statement).one(): raises when the statement selects no row.
exec_one(s, op, repo, key, M) ==
    /\ UNCHANGED <<tables, ids, now, tx, inflight>>
    /\ IF ~Usable(s)
       THEN /\ last' = Call(op, repo, s, None, key,
                            "PendingRollbackError", "", None)
            /\ UNCHANGED identity
       ELSE IF M = {}
       THEN /\ last' = Call(op, repo, s, None, key, "NoResultFound", "", None)
            /\ UNCHANGED identity
       ELSE \E r \in M :
               LET ret == Some(Identified(s, repo, r))
               IN  /\ identity' = Loaded(s, repo, ret)
                   /\ last' = Call(op, repo, s, None, key, "returned", "", ret)

\* exec(statement).first() where the statement selects the rows M: one of
\* them, or None when there is none.
exec_first(s, op, repo, key, M) ==
    /\ UNCHANGED <<tables, ids, now, tx, inflight>>
    /\ IF ~Usable(s)
       THEN /\ last' = Call(op, repo, s, None, key,
                            "PendingRollbackError", "", None)
            /\ UNCHANGED identity
       ELSE IF M = {}
       THEN /\ last' = Call(op, repo, s, None, key, "returned", "", None)
            /\ UNCHANGED identity
       ELSE \E r \in M :
               LET ret == Some(Identified(s, repo, r))
               IN  /\ identity' = Loaded(s, repo, ret)
                   /\ last' = Call(op, repo, s, None, key, "returned", "", ret)

\* get_by_username with the where clause of get_by_email.
ReviewerRepository_get_by_username_WrongColumn(s, username) ==
    exec_first(s, "get_by_username", "Reviewer", [username |-> username],
               {r \in reviewers : r.email = username})

ReviewerRepository_get_by_username(s, username) ==
    exec_first(s, "get_by_username", "Reviewer", [username |-> username],
               {r \in reviewers : r.username = username})

ReviewerRepository_get_by_email(s, email) ==
    exec_first(s, "get_by_email", "Reviewer", [email |-> email],
               {r \in reviewers : r.email = email})

ReviewedObjectRepository_get_by_type_and_id(s, object_type, object_id) ==
    exec_first(s, "get_by_type_and_id", "ReviewedObject",
               [object_type |-> object_type, object_id |-> object_id],
               {r \in reviewed_objects : /\ r.object_type = object_type
                                         /\ r.object_id = object_id})

ReviewRepository_get_by_reviewer_and_object(s, reviewer_id, object_id) ==
    exec_first(s, "get_by_reviewer_and_object", "Review",
               [reviewer_id |-> reviewer_id, reviewed_object_id |-> object_id],
               {r \in reviews : /\ r.reviewer_id = reviewer_id
                                /\ r.reviewed_object_id = object_id})

(***************************************************************************)
(* Pages: session.exec(select(...).where(...).offset(skip).limit(limit))   *)
(* .all().  The statement has no ORDER BY, so the engine returns the       *)
(* matching rows in an order of its choosing, made anew for each           *)
(* statement.                                                              *)
(***************************************************************************)
Orderings(M) ==
    { q \in [1..Cardinality(M) -> M] : \A r \in M : \E i \in DOMAIN q : q[i] = r }

\* OFFSET skip LIMIT limit of the ordered result.
Page(order, skip, limit) ==
    IF skip + limit <= Len(order) THEN SubSeq(order, skip + 1, skip + limit)
    ELSE SubSeq(order, skip + 1, Len(order))

\* The identity map of s once the objects of a page have been returned.
LoadedAll(s, repo, rows) ==
    [identity EXCEPT ![s][repo] =
        @ \cup {r \in rows : Cached(s, repo, r.id) = {}}]

exec_all(s, op, repo, key, M, skip, limit) ==
    /\ UNCHANGED <<tables, ids, now, tx, inflight>>
    /\ IF ~Usable(s)
       THEN /\ last' = Call(op, repo, s, None, key,
                            "PendingRollbackError", "", None)
            /\ UNCHANGED identity
       ELSE \E order \in Orderings(M) :
               LET page == Page(order, skip, limit)
                   objects == [i \in DOMAIN page |->
                                  Identified(s, repo, page[i])]
               IN  /\ identity' = LoadedAll(s, repo,
                                     {page[i] : i \in DOMAIN page})
                   /\ last' = Call(op, repo, s, None, key, "returned", "",
                                   Some(objects))

\* The same statement without its where clause.
ReviewRepository_get_by_object_NoFilter(s, object_id, skip, limit) ==
    exec_all(s, "get_by_object", "Review",
             [reviewed_object_id |-> object_id, skip |-> skip, limit |-> limit],
             reviews, skip, limit)

\* select(Review).where(Review.reviewed_object_id == object_id)
\*     .offset(skip).limit(limit)
ReviewRepository_get_by_object(s, object_id, skip, limit) ==
    exec_all(s, "get_by_object", "Review",
             [reviewed_object_id |-> object_id, skip |-> skip, limit |-> limit],
             {r \in reviews : r.reviewed_object_id = object_id}, skip, limit)

(***************************************************************************)
(* Statistics projection (ReviewStatistics): the aggregate of the reviews  *)
(* of one reviewed object, computed from the committed rows when asked.    *)
(***************************************************************************)
RECURSIVE SumOfStars(_)
SumOfStars(V) ==
    IF V = {} THEN 0
    ELSE LET r == CHOOSE x \in V : TRUE
         IN  r.star_rating[1] + SumOfStars(V \ {r})

\* A projection that reports the sum over all reviews and an average of zero
\* when no review carries a star rating.
ReviewStatistics_of_ZeroWhenUnrated(O, V, object_id) ==
    LET object == CHOOSE o \in O : o.id = object_id
        mine == {r \in V : r.reviewed_object_id = Some(object_id)}
        rated == {r \in mine : r.star_rating # None}
    IN  [object_id |-> object.id, object_type |-> object.object_type,
         object_name |-> object.object_name,
         total_reviews |-> Cardinality(mine),
         average_rating |->
            Some([sum |-> SumOfStars(rated), count |-> Cardinality(mine)]),
         thumbs_up_count |->
            Cardinality({r \in mine : r.thumbs_rating = Some("up")}),
         thumbs_down_count |->
            Cardinality({r \in mine : r.thumbs_rating = Some("down")})]

\* The mean is kept exact, as the sum and the count it is the quotient of.
ReviewStatistics_of(O, V, object_id) ==
    LET object == CHOOSE o \in O : o.id = object_id
        mine == {r \in V : r.reviewed_object_id = Some(object_id)}
        rated == {r \in mine : r.star_rating # None}
    IN  [object_id |-> object.id, object_type |-> object.object_type,
         object_name |-> object.object_name,
         total_reviews |-> Cardinality(mine),
         average_rating |->
            IF rated = {} THEN None
            ELSE Some([sum |-> SumOfStars(rated), count |-> Cardinality(rated)]),
         thumbs_up_count |->
            Cardinality({r \in mine : r.thumbs_rating = Some("up")}),
         thumbs_down_count |->
            Cardinality({r \in mine : r.thumbs_rating = Some("down")})]

\* The projection asked for through session s; it reads and writes nothing
\* else.
review_statistics(s, object_id) ==
    /\ UNCHANGED <<tables, ids, now, tx, identity, inflight>>
    /\ last' =
          IF ~Usable(s)
          THEN Call("statistics", "ReviewedObject", s, Some(object_id), None,
                    "PendingRollbackError", "", None)
          ELSE IF \A o \in reviewed_objects : o.id # object_id
          THEN Call("statistics", "ReviewedObject", s, Some(object_id), None,
                    "returned", "", None)
          ELSE Call("statistics", "ReviewedObject", s, Some(object_id), None,
                    "returned", "",
                    Some(ReviewStatistics_of(reviewed_objects, reviews,
                                             object_id)))

(***************************************************************************)
(* get_session: leaving the "with Session(engine)" block closes the        *)
(* session, and the next caller is handed a new one.                       *)
(***************************************************************************)
get_session(s) ==
    /\ ~Usable(s)
    /\ tx' = [tx EXCEPT ![s] = "active"]
    /\ identity' = ExpireAll(s)
    /\ last' = NoCall
    /\ UNCHANGED <<tables, ids, now, inflight>>

\* The writing calls of one repository, with the inputs the callers draw
\* from; d is the time that passes between the two utc_now() readings of a
\* create.
ReviewerCalls(Creates, Updates, Ticks) ==
    \E s \in Sessions :
        \/ \E data \in Creates, d \in Ticks :
              ReviewerRepository_create(s, data, d)
        \/ \E id \in RowIds, data \in Updates :
              ReviewerRepository_update(s, id, data)
        \/ \E id \in RowIds : ReviewerRepository_delete(s, id)

ReviewedObjectCalls(Creates, Updates, Ticks) ==
    \E s \in Sessions :
        \/ \E data \in Creates, d \in Ticks :
              ReviewedObjectRepository_create(s, data, d)
        \/ \E id \in RowIds, data \in Updates :
              ReviewedObjectRepository_update(s, id, data)
        \/ \E id \in RowIds : ReviewedObjectRepository_delete(s, id)

ReviewCalls(Creates, Updates, Ticks) ==
    \E s \in Sessions :
        \/ \E data \in Creates, d \in Ticks :
              ReviewRepository_create(s, data, d)
        \/ \E id \in RowIds, data \in Updates :
              ReviewRepository_update(s, id, data)
        \/ \E id \in RowIds : ReviewRepository_delete(s, id)

\* The reading calls of one repository, with the keys the callers ask for.
ReviewerReads(Names, Mails) ==
    \E s \in Sessions :
        \/ \E id \in RowIds : ReviewerRepository_get_by_id(s, id)
        \/ \E username \in Names : ReviewerRepository_get_by_username(s, username)
        \/ \E email \in Mails : ReviewerRepository_get_by_email(s, email)

ReviewedObjectReads(Types, ExternalIds) ==
    \E s \in Sessions :
        \/ \E id \in RowIds : ReviewedObjectRepository_get_by_id(s, id)
        \/ \E object_type \in Types, object_id \in ExternalIds :
              ReviewedObjectRepository_get_by_type_and_id(s, object_type,
                                                          object_id)

ReviewReads(ReviewerIds, ObjectRowIds) ==
    \E s \in Sessions :
        \/ \E id \in RowIds : ReviewRepository_get_by_id(s, id)
        \/ \E reviewer_id \in ReviewerIds, object_id \in ObjectRowIds :
              ReviewRepository_get_by_reviewer_and_object(s, reviewer_id,
                                                          object_id)

(***************************************************************************)
(* Callers of ReviewerRepository only.                                     *)
(***************************************************************************)
ReviewerNext == ReviewerCalls(ReviewerCreates, ReviewerUpdates, 0..1)

SpecReviewer == Init /\ [][ReviewerNext]_vars

(***************************************************************************)
(* Callers of ReviewedObjectRepository only.                               *)
(***************************************************************************)
ReviewedObjectNext ==
    ReviewedObjectCalls(ReviewedObjectCreates, ReviewedObjectUpdates, {0})

SpecReviewedObject == Init /\ [][ReviewedObjectNext]_vars

(***************************************************************************)
(* Callers of ReviewRepository only, on a store that already holds one     *)
(* reviewer and one reviewed object.                                       *)
(***************************************************************************)
InitPopulated ==
    /\ reviewers =
          { Reviewer_model_validate(
                [username |-> Some("alice"), email |-> Some("a@x.org"),
                 full_name |-> None], 1, 0, 0) }
    /\ reviewed_objects =
          { ReviewedObject_model_validate(
                [object_type |-> Some("restaurant"), object_id |-> Some("ext1"),
                 object_name |-> Some("Name"), object_description |-> None,
                 object_metadata |-> None], 1, 0, 0) }
    /\ reviews = {}
    /\ ids = [reviewer |-> 1, object |-> 1, review |-> 0]
    /\ now = 0
    /\ tx = [s \in ConcurrentSessions |-> "active"]
    /\ identity = [s \in ConcurrentSessions |-> Expired]
    /\ inflight = [s \in ConcurrentSessions |-> None]
    /\ last = NoCall

ReviewNext == ReviewCalls(ReviewCreates, ReviewUpdates, {0})

SpecReview == InitPopulated /\ [][ReviewNext]_vars

(***************************************************************************)
(* Callers of all three repositories on one session, each drawing from a   *)
(* few fixed shapes.                                                       *)
(***************************************************************************)
SomeReviewerCreates ==
    { [username |-> Some("alice"), email |-> Some("a@x.org"), full_name |-> None],
      [username |-> Some("bob"), email |-> Some("b@x.org"), full_name |-> None] }
SomeReviewerUpdates == { [username |-> Some("bob")] }

SomeReviewedObjectCreates ==
    { [object_type |-> Some("restaurant"), object_id |-> Some("ext1"),
       object_name |-> Some("Name"), object_description |-> None,
       object_metadata |-> None] }
SomeReviewedObjectUpdates ==
    { [object_name |-> None] }

SomeReviewCreates ==
    { [reviewer_id |-> Some(r), reviewed_object_id |-> Some(o),
       text_review |-> t, star_rating |-> None, thumbs_rating |-> None] :
         r \in RowIds, o \in {1}, t \in Texts }
SomeReviewUpdates == { [text_review |-> None] }

Next ==
    \/ ReviewerCalls(SomeReviewerCreates, SomeReviewerUpdates, {0})
    \/ ReviewedObjectCalls(SomeReviewedObjectCreates, SomeReviewedObjectUpdates,
                           {0})
    \/ ReviewCalls(SomeReviewCreates, SomeReviewUpdates, {0})
    \/ \E s \in Sessions : get_session(s)

Spec == Init /\ [][Next]_vars

(***************************************************************************)
(* Callers that also read: the writes of a few fixed shapes and every      *)
(* lookup, on one session.                                                 *)
(***************************************************************************)
ReadReviewCreates ==
    { [reviewer_id |-> Some(1), reviewed_object_id |-> Some(1),
       text_review |-> Some("fine"), star_rating |-> None,
       thumbs_rating |-> None] }

ReadNext ==
    \/ ReviewerCalls(SomeReviewerCreates, SomeReviewerUpdates, {0})
    \/ \E s \in Sessions :
          \/ \E data \in SomeReviewedObjectCreates :
                ReviewedObjectRepository_create(s, data, 0)
          \/ \E id \in RowIds : ReviewedObjectRepository_delete(s, id)
          \/ \E data \in ReadReviewCreates : ReviewRepository_create(s, data, 0)
          \/ \E id \in RowIds : ReviewRepository_delete(s, id)
    \/ ReviewerReads(Usernames, Emails)
    \/ ReviewedObjectReads(ObjectTypes, {Some("ext1")})
    \/ ReviewReads({Some(i) : i \in RowIds}, {Some(1)})

SpecRead == Init /\ [][ReadNext]_vars

(***************************************************************************)
(* Callers that review one object and page through its reviews, on a store *)
(* that already holds two reviewers and one reviewed object.               *)
(***************************************************************************)
MaxSkip == 2      \* largest offset asked for

InitTwoReviewers ==
    /\ reviewers =
          { Reviewer_model_validate(
                [username |-> Some("alice"), email |-> Some("a@x.org"),
                 full_name |-> None], 1, 0, 0),
            Reviewer_model_validate(
                [username |-> Some("bob"), email |-> Some("b@x.org"),
                 full_name |-> None], 2, 0, 0) }
    /\ reviewed_objects =
          { ReviewedObject_model_validate(
                [object_type |-> Some("restaurant"), object_id |-> Some("ext1"),
                 object_name |-> Some("Name"), object_description |-> None,
                 object_metadata |-> None], 1, 0, 0) }
    /\ reviews = {}
    /\ ids = [reviewer |-> 2, object |-> 1, review |-> 0]
    /\ now = 0
    /\ tx = [s \in ConcurrentSessions |-> "active"]
    /\ identity = [s \in ConcurrentSessions |-> Expired]
    /\ inflight = [s \in ConcurrentSessions |-> None]
    /\ last = NoCall

ObjectReviewCreates ==
    [reviewer_id : {Some(1), Some(2)}, reviewed_object_id : {Some(1)},
     text_review : {None}, star_rating : {None, Some(0), Some(5)},
     thumbs_rating : {None, Some("up"), Some("down")}]

ObjectReviewUpdates == { [star_rating |-> Some(3)], [thumbs_rating |-> None] }

ObjectReviewsNext ==
    \/ ReviewCalls(ObjectReviewCreates, ObjectReviewUpdates, {0})
    \/ \E s \in Sessions :
          \/ \E object_id \in {Some(1)}, skip \in 0..MaxSkip, limit \in 1..2 :
                ReviewRepository_get_by_object(s, object_id, skip, limit)
          \/ \E object_id \in RowIds : review_statistics(s, object_id)

SpecObjectReviews == InitTwoReviewers /\ [][ObjectReviewsNext]_vars

(***************************************************************************)
(* create, statement by statement, for callers on separate sessions.       *)
(* inflight[s] is the create session s is inside of: the object built by   *)
(* model_validate and how far the call has got.  "added": session.add is   *)
(* done; "waiting": the INSERT of the flush waits for another transaction; *)
(* "inserted": the INSERT is done and the transaction is open; "returned"  *)
(* and "ValueError": the call is over.                                     *)
(***************************************************************************)
Create(repo, data, row, stage, blocked) ==
    Some([repo |-> repo, data |-> data, row |-> row, stage |-> stage,
          blocked |-> blocked])

\* The rows that sessions other than s have INSERTed into the table of repo
\* in transactions that are still open.
Uncommitted(s, repo) ==
    { inflight[o][1].row :
        o \in { x \in ConcurrentSessions \ {s} :
                  /\ inflight[x] # None
                  /\ inflight[x][1].repo = repo
                  /\ inflight[x][1].stage = "inserted" } }

\* The constraints of the store hold with rows added to the table of repo.
Insertable(repo, rows) ==
    StoreOK(IF repo = "Reviewer" THEN reviewers \cup rows ELSE reviewers,
            IF repo = "ReviewedObject" THEN reviewed_objects \cup rows
            ELSE reviewed_objects,
            IF repo = "Review" THEN reviews \cup rows ELSE reviews)

\* The rows that sessions other than s have DELETEd from the table of repo
\* in transactions that are still open.
Removed(s, repo) ==
    { inflight[o][1].row :
        o \in { x \in ConcurrentSessions \ {s} :
                  /\ inflight[x] # None
                  /\ inflight[x][1].repo = repo
                  /\ inflight[x][1].stage = "removed" } }

\* The report of the engine on rows added to the table of repo.
InsertReport(repo, rows) ==
    Report(IF repo = "Reviewer" THEN reviewers \cup rows ELSE reviewers,
           IF repo = "ReviewedObject" THEN reviewed_objects \cup rows
           ELSE reviewed_objects,
           IF repo = "Review" THEN reviews \cup rows ELSE reviews)

CreationFailed(repo) ==
    CASE repo = "Reviewer" -> "Reviewer creation failed"
      [] repo = "ReviewedObject" -> "Reviewed object creation failed"
      [] repo = "Review" -> "Review creation failed"

MustWait_CommittedRowsOnly(s, repo, row) == FALSE

\* The unique index holds an entry with the key of row that an open
\* transaction has written, or an open transaction has deleted the row a
\* foreign key of row names: the INSERT waits until that transaction ends.
MustWait(s, repo, row) ==
    \/ ~Insertable(repo, {row} \cup Uncommitted(s, repo))
    \/ /\ repo = "Review"
       /\ \/ \E p \in Removed(s, "Reviewer") : row.reviewer_id = Some(p.id)
          \/ \E p \in Removed(s, "ReviewedObject") :
                row.reviewed_object_id = Some(p.id)

\* db_x = Model.model_validate(data); self.session.add(db_x)
ReviewerRepository_create_add(s, data) ==
    /\ inflight[s] = None
    /\ ids.reviewer < MaxIds
    /\ ReviewerBase_valid(data)
    /\ ids' = [ids EXCEPT !.reviewer = @ + 1]
    /\ inflight' = [inflight EXCEPT ![s] =
          Create("Reviewer", data,
                 Reviewer_model_validate(data, ids.reviewer + 1, now, now),
                 "added", FALSE)]
    /\ last' = NoCall
    /\ UNCHANGED <<tables, now, tx, identity>>

ReviewedObjectRepository_create_add(s, data) ==
    /\ inflight[s] = None
    /\ ids.object < MaxIds
    /\ ReviewedObjectBase_valid(data)
    /\ ids' = [ids EXCEPT !.object = @ + 1]
    /\ inflight' = [inflight EXCEPT ![s] =
          Create("ReviewedObject", data,
                 ReviewedObject_model_validate(data, ids.object + 1, now, now),
                 "added", FALSE)]
    /\ last' = NoCall
    /\ UNCHANGED <<tables, now, tx, identity>>

ReviewRepository_create_add(s, data) ==
    /\ inflight[s] = None
    /\ ids.review < MaxIds
    /\ ReviewBase_valid(data)
    /\ ids' = [ids EXCEPT !.review = @ + 1]
    /\ inflight' = [inflight EXCEPT ![s] =
          Create("Review", data,
                 Review_model_validate(data, ids.review + 1, now, now),
                 "added", FALSE)]
    /\ last' = NoCall
    /\ UNCHANGED <<tables, now, tx, identity>>

\* self.session.commit(), first half: the flush sends the INSERT.
create_flush(s) ==
    /\ inflight[s] # None
    /\ LET c == inflight[s][1]
       IN  /\ c.stage \in {"added", "waiting"}
           /\ c.data # None
           /\ IF ~Usable(s)
              THEN \* session.commit() refuses
                   /\ inflight' = [inflight EXCEPT ![s] =
                         Create(c.repo, c.data, c.row, "PendingRollbackError",
                                c.blocked)]
                   /\ last' = Call("create", c.repo, s, None, c.data,
                                   "PendingRollbackError", "", None)
                   /\ UNCHANGED identity
              ELSE IF ~Insertable(c.repo, {c.row})
              THEN \* a committed row is in the way, IntegrityError:
                   \* rollback, raise ValueError
                   /\ inflight' = [inflight EXCEPT ![s] =
                         Create(c.repo, c.data, c.row, "ValueError", c.blocked)]
                   /\ identity' = ExpireAll(s)
                   /\ LET e == InsertReport(c.repo, {c.row}) IN
                         last' = Call("create", c.repo, s, None, c.data,
                                      "ValueError",
                                      ValueError_message(CreationFailed(c.repo),
                                                         e),
                                      None)
              ELSE IF MustWait(s, c.repo, c.row)
              THEN /\ c.stage = "added"
                   /\ inflight' = [inflight EXCEPT ![s] =
                         Create(c.repo, c.data, c.row, "waiting", TRUE)]
                   /\ last' = NoCall
                   /\ UNCHANGED identity
              ELSE /\ inflight' = [inflight EXCEPT ![s] =
                         Create(c.repo, c.data, c.row, "inserted", c.blocked)]
                   /\ last' = NoCall
                   /\ UNCHANGED identity
    /\ UNCHANGED <<tables, ids, now, tx>>

\* self.session.commit(), second half: COMMIT; then refresh and return.
create_commit(s) ==
    /\ inflight[s] # None
    /\ LET c == inflight[s][1]
       IN  /\ c.stage = "inserted"
           /\ reviewers' = IF c.repo = "Reviewer" THEN reviewers \cup {c.row}
                           ELSE reviewers
           /\ reviewed_objects' = IF c.repo = "ReviewedObject"
                                  THEN reviewed_objects \cup {c.row}
                                  ELSE reviewed_objects
           /\ reviews' = IF c.repo = "Review" THEN reviews \cup {c.row}
                         ELSE reviews
           /\ inflight' = [inflight EXCEPT ![s] =
                 Create(c.repo, c.data, c.row, "returned", c.blocked)]
           /\ identity' = Refreshed(s, c.repo, c.row)
           /\ last' = Call("create", c.repo, s, None, c.data, "returned", "",
                           Some(c.row))
    /\ UNCHANGED <<ids, now, tx>>

(***************************************************************************)
(* delete of a reviewer or a reviewed object, statement by statement.      *)
(* "marked": session.get found the row and session.delete is done;         *)
(* "waiting": the DELETE of the flush waits for another transaction;       *)
(* "removed": the DELETE is done and the transaction is open; "deleted"    *)
(* and "IntegrityError": the call is over.                                 *)
(***************************************************************************)
ParentKey(repo) ==
    IF repo = "Reviewer" THEN "reviewer_id" ELSE "reviewed_object_id"

MustWaitToDelete_NoRowLock(s, repo, id) == FALSE

\* An open transaction of another session has INSERTed a review that names
\* the row: the row is locked and the DELETE waits until that transaction
\* ends.
MustWaitToDelete(s, repo, id) ==
    \E r \in Uncommitted(s, "Review") : r[ParentKey(repo)] = Some(id)

\* row = self.session.get(Model, id); self.session.delete(row)
delete_mark(s, repo, id) ==
    /\ repo \in {"Reviewer", "ReviewedObject"}
    /\ inflight[s] = None
    /\ Usable(s)
    /\ LET T == IF repo = "Reviewer" THEN reviewers ELSE reviewed_objects
           row == session_get(s, repo, T, id)
       IN  /\ row # None
           /\ inflight' = [inflight EXCEPT ![s] =
                 Create(repo, None, row[1], "marked", FALSE)]
    /\ last' = NoCall
    /\ UNCHANGED <<tables, ids, now, tx, identity>>

\* self.session.commit(), first half: the flush sets the foreign key of the
\* reviews of the row to NULL and sends the DELETE.
delete_flush(s) ==
    /\ inflight[s] # None
    /\ LET c == inflight[s][1]
           id == c.row.id
           R == IF c.repo = "Reviewer"
                THEN reviewers \ {r \in reviewers : r.id = id} ELSE reviewers
           O == IF c.repo = "ReviewedObject"
                THEN reviewed_objects \ {r \in reviewed_objects : r.id = id}
                ELSE reviewed_objects
           V == Orphaned(reviews, ParentKey(c.repo), id)
       IN  /\ c.stage \in {"marked", "waiting"}
           /\ c.data = None
           /\ IF ~StoreOK(R, O, V)
              THEN \* the flush fails inside commit() and nothing catches it
                   /\ inflight' = [inflight EXCEPT ![s] =
                         Create(c.repo, None, c.row, "IntegrityError",
                                c.blocked)]
                   /\ tx' = [tx EXCEPT ![s] = "needs_rollback"]
                   /\ identity' = ExpireAll(s)
                   /\ last' = Call("delete", c.repo, s, Some(id), None,
                                   "IntegrityError", "", None)
              ELSE IF MustWaitToDelete(s, c.repo, id)
              THEN /\ c.stage = "marked"
                   /\ inflight' = [inflight EXCEPT ![s] =
                         Create(c.repo, None, c.row, "waiting", TRUE)]
                   /\ last' = NoCall
                   /\ UNCHANGED <<tx, identity>>
              ELSE /\ inflight' = [inflight EXCEPT ![s] =
                         Create(c.repo, None, c.row, "removed", c.blocked)]
                   /\ last' = NoCall
                   /\ UNCHANGED <<tx, identity>>
    /\ UNCHANGED <<tables, ids, now>>

\* self.session.commit(), second half: COMMIT; return True.
delete_commit(s) ==
    /\ inflight[s] # None
    /\ LET c == inflight[s][1]
       IN  /\ c.stage = "removed"
           /\ reviewers' = IF c.repo = "Reviewer"
                           THEN reviewers \ {r \in reviewers : r.id = c.row.id}
                           ELSE reviewers
           /\ reviewed_objects' =
                 IF c.repo = "ReviewedObject"
                 THEN reviewed_objects
                         \ {r \in reviewed_objects : r.id = c.row.id}
                 ELSE reviewed_objects
           /\ inflight' = [inflight EXCEPT ![s] =
                 Create(c.repo, None, c.row, "deleted", c.blocked)]
           /\ identity' = ExpireAll(s)
           /\ last' = Call("delete", c.repo, s, Some(c.row.id), None,
                           "returned", "", Some(TRUE))
    /\ UNCHANGED <<reviews, ids, now, tx>>

\* The call of session s is over and its caller makes the next one.
call_over(s) ==
    /\ inflight[s] # None
    /\ inflight[s][1].stage \in {"returned", "ValueError", "deleted",
                                 "IntegrityError", "PendingRollbackError"}
    /\ inflight' = [inflight EXCEPT ![s] = None]
    /\ last' = NoCall
    /\ UNCHANGED <<tables, ids, now, tx, identity>>

(***************************************************************************)
(* Two callers on separate sessions, each making one create, on an empty   *)
(* store or on one that holds a reviewer and a reviewed object.            *)
(***************************************************************************)
ConcurrentReviewCreates ==
    { [reviewer_id |-> Some(1), reviewed_object_id |-> Some(1),
       text_review |-> t, star_rating |-> None, thumbs_rating |-> Some("up")] :
         t \in Texts }

ConcurrentNext ==
    \E s \in ConcurrentSessions :
        \/ \E data \in ReviewerCreates : ReviewerRepository_create_add(s, data)
        \/ \E data \in SomeReviewedObjectCreates :
              ReviewedObjectRepository_create_add(s, data)
        \/ \E data \in ConcurrentReviewCreates :
              ReviewRepository_create_add(s, data)
        \/ create_flush(s)
        \/ create_commit(s)

SpecConcurrent == (Init \/ InitPopulated) /\ [][ConcurrentNext]_vars

(***************************************************************************)
(* Callers on two sessions that stay open across calls: each reads and     *)
(* writes reviewers and creates and reads reviews, on a store that already *)
(* holds one reviewer and one reviewed object.                             *)
(***************************************************************************)
SessionsNext ==
    \E s \in ConcurrentSessions :
        \/ \E data \in SomeReviewerCreates :
              ReviewerRepository_create(s, data, 0)
        \/ \E id \in RowIds, data \in SomeReviewerUpdates :
              ReviewerRepository_update(s, id, data)
        \/ \E id \in RowIds : ReviewerRepository_delete(s, id)
        \/ \E id \in RowIds : ReviewerRepository_get_by_id(s, id)
        \/ \E username \in Usernames :
              ReviewerRepository_get_by_username(s, username)
        \/ \E data \in ReadReviewCreates : ReviewRepository_create(s, data, 0)
        \/ \E id \in RowIds : ReviewRepository_get_by_id(s, id)

SpecSessions == InitPopulated /\ [][SessionsNext]_vars

(***************************************************************************)
(* Callers that create reviews and update them with payloads that also     *)
(* name identity fields, on a store that already holds two reviewers and   *)
(* one reviewed object.                                                    *)
(***************************************************************************)
IdentityReviewCreates ==
    [reviewer_id : {Some(1), Some(2)}, reviewed_object_id : {Some(1)},
     text_review : {None}, star_rating : {None}, thumbs_rating : {Some("up")}]

ReviewUpdatePayloads ==
    { [star_rating |-> Some(5)],
      [text_review |-> Some("fine"), thumbs_rating |-> None],
      [reviewer_id |-> Some(2)],
      [reviewer_id |-> Some(1), star_rating |-> Some(0)],
      [reviewed_object_id |-> Some(2), text_review |-> Some("fine")],
      [id |-> 2, thumbs_rating |-> Some("down")] }

ReviewIdentityNext ==
    ReviewCalls(IdentityReviewCreates,
                {ReviewUpdate_model_validate(p) : p \in ReviewUpdatePayloads},
                {0})

SpecReviewIdentity == InitTwoReviewers /\ [][ReviewIdentityNext]_vars

(***************************************************************************)
(* Callers that review two objects and list the reviews of each, on a      *)
(* store that already holds two reviewers and two reviewed objects.        *)
(***************************************************************************)
InitTwoObjects ==
    /\ reviewers =
          { Reviewer_model_validate(
                [username |-> Some("alice"), email |-> Some("a@x.org"),
                 full_name |-> None], 1, 0, 0),
            Reviewer_model_validate(
                [username |-> Some("bob"), email |-> Some("b@x.org"),
                 full_name |-> None], 2, 0, 0) }
    /\ reviewed_objects =
          { ReviewedObject_model_validate(
                [object_type |-> Some("restaurant"), object_id |-> Some("ext1"),
                 object_name |-> Some("Name"), object_description |-> None,
                 object_metadata |-> None], 1, 0, 0),
            ReviewedObject_model_validate(
                [object_type |-> Some("movie"), object_id |-> Some("ext2"),
                 object_name |-> Some("Name"), object_description |-> None,
                 object_metadata |-> None], 2, 0, 0) }
    /\ reviews = {}
    /\ ids = [reviewer |-> 2, object |-> 2, review |-> 0]
    /\ now = 0
    /\ tx = [s \in ConcurrentSessions |-> "active"]
    /\ identity = [s \in ConcurrentSessions |-> Expired]
    /\ inflight = [s \in ConcurrentSessions |-> None]
    /\ last = NoCall

ListedReviewCreates ==
    [reviewer_id : {Some(1), Some(2)}, reviewed_object_id : {Some(1), Some(2)},
     text_review : {None}, star_rating : {Some(5), Some(3)},
     thumbs_rating : {None}]

ListingNext ==
    \E s \in Sessions :
        \/ \E data \in ListedReviewCreates : ReviewRepository_create(s, data, 0)
        \/ \E id \in RowIds : ReviewRepository_delete(s, id)
        \/ \E object_id \in {Some(1), Some(2)}, skip \in 0..1,
               limit \in 1..(MaxIds + 1) :
              ReviewRepository_get_by_object(s, object_id, skip, limit)

SpecListing == InitTwoObjects /\ [][ListingNext]_vars

(***************************************************************************)
(* Two callers on separate sessions that create reviews and delete the     *)
(* reviewer and the reviewed object, their statements interleaved, on a    *)
(* store that already holds one reviewer and one reviewed object.          *)
(***************************************************************************)
IntegrityReviewCreates ==
    [reviewer_id : {Some(1), Some(2)}, reviewed_object_id : {Some(1)},
     text_review : {None}, star_rating : {None}, thumbs_rating : {Some("up")}]

IntegrityNext ==
    \E s \in ConcurrentSessions :
        \/ \E data \in IntegrityReviewCreates :
              ReviewRepository_create_add(s, data)
        \/ create_flush(s)
        \/ create_commit(s)
        \/ \E repo \in {"Reviewer", "ReviewedObject"}, id \in RowIds :
              delete_mark(s, repo, id)
        \/ delete_flush(s)
        \/ delete_commit(s)
        \/ call_over(s)
        \/ get_session(s)

SpecIntegrity == InitPopulated /\ [][IntegrityNext]_vars

(***************************************************************************)
(* Callers that only create and update, and so retry after a failure, on a *)
(* store that already holds one reviewer and one reviewed object.          *)
(***************************************************************************)
RetryNext ==
    \E s \in Sessions :
        \/ \E data \in SomeReviewerCreates : ReviewerRepository_create(s, data, 0)
        \/ \E id \in RowIds, data \in SomeReviewerUpdates :
              ReviewerRepository_update(s, id, data)
        \/ \E data \in SomeReviewedObjectCreates :
              ReviewedObjectRepository_create(s, data, 0)
        \/ \E id \in RowIds, data \in SomeReviewedObjectUpdates :
              ReviewedObjectRepository_update(s, id, data)
        \/ \E data \in SomeReviewCreates : ReviewRepository_create(s, data, 0)
        \/ \E id \in RowIds, data \in SomeReviewUpdates :
              ReviewRepository_update(s, id, data)

SpecRetry == InitPopulated /\ [][RetryNext]_vars

(***************************************************************************)
(* Vocabulary of the properties.  A step of the system is one call; last'  *)
(* is the call made in the step and the unprimed tables are the store it   *)
(* was made on.                                                            *)
(***************************************************************************)
Label(repo) ==
    CASE repo = "Reviewer" -> "Reviewer"
      [] repo = "ReviewedObject" -> "Reviewed object"
      [] repo = "Review" -> "Review"

FailureMessage(c) ==
    CASE c.op = "create" -> Label(c.repo) \o " creation failed"
      [] c.op = "update" -> Label(c.repo) \o " update failed"

\* The names the storage engine reports constraints under.
ConstraintNames ==
    {"not-null constraint", "primary key", "ix_reviewers_username",
     "ix_reviewers_email", "uq_object_type_id", "check_star_rating_range",
     "check_thumbs_rating_values", "check_review_content_exists",
     "uq_reviewer_object", "reviews_reviewer_id_fkey",
     "reviews_reviewed_object_id_fkey"}

\* Message m begins with the words failed and goes on with the report of
\* the engine.
Begins(m, failed) == \E e \in ConstraintNames : m = failed \o ": " \o e

Rows(repo, R, O, V) ==
    CASE repo = "Reviewer" -> R
      [] repo = "ReviewedObject" -> O
      [] repo = "Review" -> V

Stored(repo) == Rows(repo, reviewers, reviewed_objects, reviews)

HasId(T, id) == \E r \in T : r.id = id
RowOf(T, id) == CHOOSE r \in T : r.id = id

\* The value a field has after an update with payload d of the row old.
Provided(d, f, old) == IF f \in DOMAIN d THEN d[f] ELSE old[f]

StarInRange(v) == v = None \/ (v[1] >= 0 /\ v[1] <= 5)
ThumbsKnown(v) == v = None \/ v = Some("up") \/ v = Some("down")
HasContent(t, st, th) == t # None \/ st # None \/ th # None

\* The shape handed to the call passed field validation, so that the
\* repository method was entered with it.
ShapeAccepted(c) ==
    CASE c.repo = "Reviewer" /\ c.op = "create" ->
            c.data.username # None /\ c.data.email # None
      [] c.repo = "ReviewedObject" /\ c.op = "create" ->
            c.data.object_type # None /\ c.data.object_id # None
            /\ c.data.object_name # None
      [] c.repo = "Review" /\ c.op \in {"create", "update"} ->
            /\ "star_rating" \in DOMAIN c.data => StarInRange(c.data.star_rating)
            /\ "thumbs_rating" \in DOMAIN c.data /\ c.data.thumbs_rating # None
                  => Len(c.data.thumbs_rating[1]) <= 10
      [] OTHER -> TRUE

\* The write asked for by call c breaks a uniqueness, NOT NULL, foreign-key
\* or check constraint of the store it is made on.
BreaksConstraint(c) ==
    LET d == c.data
        T == Stored(c.repo)
    IN
    CASE c.repo = "Reviewer" /\ c.op = "create" ->
            \E r \in T : r.username = d.username \/ r.email = d.email
      [] c.repo = "Reviewer" /\ c.op = "update" ->
            /\ HasId(T, c.id[1])
            /\ LET old == RowOf(T, c.id[1])
                   u == Provided(d, "username", old)
                   e == Provided(d, "email", old)
               IN  \/ u = None \/ e = None
                   \/ \E r \in T \ {old} : r.username = u \/ r.email = e
      [] c.repo = "ReviewedObject" /\ c.op = "create" ->
            \E r \in T : r.object_type = d.object_type
                         /\ r.object_id = d.object_id
      [] c.repo = "ReviewedObject" /\ c.op = "update" ->
            /\ HasId(T, c.id[1])
            /\ LET old == RowOf(T, c.id[1])
                   t == Provided(d, "object_type", old)
                   i == Provided(d, "object_id", old)
                   n == Provided(d, "object_name", old)
               IN  \/ t = None \/ i = None \/ n = None
                   \/ \E r \in T \ {old} : r.object_type = t /\ r.object_id = i
      [] c.repo = "Review" /\ c.op = "create" ->
            \/ \E r \in T : r.reviewer_id = d.reviewer_id
                            /\ r.reviewed_object_id = d.reviewed_object_id
            \/ ~HasId(reviewers, d.reviewer_id[1])
            \/ ~HasId(reviewed_objects, d.reviewed_object_id[1])
            \/ ~StarInRange(d.star_rating)
            \/ ~ThumbsKnown(d.thumbs_rating)
            \/ ~HasContent(d.text_review, d.star_rating, d.thumbs_rating)
      [] c.repo = "Review" /\ c.op = "update" ->
            /\ HasId(T, c.id[1])
            /\ LET old == RowOf(T, c.id[1])
                   t == Provided(d, "text_review", old)
                   st == Provided(d, "star_rating", old)
                   th == Provided(d, "thumbs_rating", old)
               IN  ~StarInRange(st) \/ ~ThumbsKnown(th) \/ ~HasContent(t, st, th)
      [] OTHER -> FALSE

\* Call c is a write entered on a usable session.
WriteEntered(c) ==
    /\ c.op \in {"create", "update"}
    /\ tx[c.session] = "active"
    /\ ShapeAccepted(c)

(***************************************************************************)
(* C1.  A create or update that fails on a uniqueness or check constraint  *)
(* raises the repository's ValueError, never returns normally, and leaves  *)
(* the committed rows of all three tables exactly as they were.            *)
(***************************************************************************)
C1_FailedWriteIsAtomic ==
    [][ /\ WriteEntered(last') /\ BreaksConstraint(last')
            => /\ last'.outcome = "ValueError"
               /\ Begins(last'.message, FailureMessage(last'))
               /\ tables' = tables
        /\ last'.outcome = "ValueError" => tables' = tables ]_vars

C1_Witness ==
    /\ last.op = "update" /\ last.repo = "Review"
    /\ last.outcome = "ValueError"
    /\ reviews # {} /\ reviewers # {} /\ reviewed_objects # {}

(***************************************************************************)
(* C2.  Creating a reviewer whose username is that of a stored reviewer    *)
(* with a different email fails with "Reviewer creation failed", and the   *)
(* store then holds exactly one reviewer with that username.               *)
(***************************************************************************)
C2_DuplicateUsernameRejected ==
    [][ LET c == last'
        IN  /\ c.op = "create" /\ c.repo = "Reviewer"
            /\ WriteEntered(c)
            /\ \E r \in reviewers : r.username = c.data.username
                                    /\ r.email # c.data.email
            => /\ c.outcome = "ValueError"
               /\ Begins(c.message, "Reviewer creation failed")
               /\ Cardinality({r \in reviewers' :
                                 r.username = c.data.username}) = 1 ]_vars

C2_Witness ==
    /\ last.op = "create" /\ last.repo = "Reviewer"
    /\ last.outcome = "ValueError"
    /\ \E r \in reviewers : r.username = last.data.username
    /\ \A r \in reviewers : r.email # last.data.email

(***************************************************************************)
(* C3.  Whatever reviewer creates, updates and deletes are made, no two    *)
(* stored reviewers share a username or an email; an update that gives a   *)
(* reviewer the username or email of a different reviewer is rejected.     *)
(***************************************************************************)
UniqueReviewers(T) ==
    \A r1, r2 \in T : r1 # r2 => r1.username # r2.username /\ r1.email # r2.email

C3_ReviewerKeysUnique ==
    [][ /\ UniqueReviewers(reviewers')
        /\ LET c == last'
           IN  /\ c.op = "update" /\ c.repo = "Reviewer"
               /\ WriteEntered(c)
               /\ \E r \in reviewers : \E o \in reviewers :
                     /\ r.id = c.id[1] /\ o.id # c.id[1]
                     /\ \/ "username" \in DOMAIN c.data
                              /\ c.data.username = o.username
                        \/ "email" \in DOMAIN c.data /\ c.data.email = o.email
               => c.outcome = "ValueError" /\ reviewers' = reviewers ]_vars

C3_Witness ==
    /\ last.op = "update" /\ last.repo = "Reviewer"
    /\ last.outcome = "ValueError"
    /\ "email" \in DOMAIN last.data
    /\ \E r \in reviewers : r.id # last.id[1] /\ r.email = last.data.email
    /\ Cardinality(reviewers) = 2

(***************************************************************************)
(* C4.  Reviewed objects are unique per (object_type, object_id): a create *)
(* or update that would repeat a stored pair fails with the constraint     *)
(* error, a create with a stored object_id under another object_type       *)
(* succeeds, and the pair is unique in every reachable state.              *)
(***************************************************************************)
UniqueObjects(T) ==
    \A r1, r2 \in T : r1 # r2 =>
        ~(r1.object_type = r2.object_type /\ r1.object_id = r2.object_id)

C4_ObjectPairUnique ==
    [][ /\ UniqueObjects(reviewed_objects')
        /\ LET c == last'
               samePair(r, t, i) == r.object_type = t /\ r.object_id = i
           IN  /\ /\ c.op = "create" /\ c.repo = "ReviewedObject"
                  /\ WriteEntered(c)
                  => IF \E r \in reviewed_objects :
                           samePair(r, c.data.object_type, c.data.object_id)
                     THEN /\ c.outcome = "ValueError"
                          /\ Begins(c.message,
                                   "Reviewed object creation failed")
                          /\ reviewed_objects' = reviewed_objects
                     ELSE /\ c.outcome = "returned"
                          /\ reviewed_objects' = reviewed_objects \cup {c.ret[1]}
                          /\ samePair(c.ret[1], c.data.object_type,
                                      c.data.object_id)
               /\ /\ c.op = "update" /\ c.repo = "ReviewedObject"
                  /\ WriteEntered(c)
                  /\ \E old \in reviewed_objects : \E o \in reviewed_objects :
                        /\ old.id = c.id[1] /\ o.id # c.id[1]
                        /\ samePair(o, Provided(c.data, "object_type", old),
                                    Provided(c.data, "object_id", old))
                  => /\ c.outcome = "ValueError"
                     /\ Begins(c.message, "Reviewed object update failed")
                     /\ reviewed_objects' = reviewed_objects ]_vars

C4_Witness ==
    /\ last.op = "create" /\ last.repo = "ReviewedObject"
    /\ last.outcome = "returned"
    /\ \E r \in reviewed_objects :
          /\ r # last.ret[1]
          /\ r.object_id = last.ret[1].object_id
          /\ r.object_type # last.ret[1].object_type

(***************************************************************************)
(* C5.  For a (reviewer_id, reviewed_object_id) pair the first review      *)
(* create succeeds, a later create for the pair fails with "Review         *)
(* creation failed" while the first review is stored, and the store never  *)
(* holds two reviews of one pair.                                          *)
(***************************************************************************)
UniqueReviews(T) ==
    \A r1, r2 \in T : r1 # r2 =>
        ~(r1.reviewer_id = r2.reviewer_id
          /\ r1.reviewed_object_id = r2.reviewed_object_id)

C5_OneReviewPerPair ==
    [][ /\ UniqueReviews(reviews')
        /\ LET c == last'
               d == c.data
           IN  /\ c.op = "create" /\ c.repo = "Review"
               /\ WriteEntered(c)
               => IF \E r \in reviews :
                        /\ r.reviewer_id = d.reviewer_id
                        /\ r.reviewed_object_id = d.reviewed_object_id
                  THEN /\ c.outcome = "ValueError"
                       /\ Begins(c.message, "Review creation failed")
                       /\ reviews' = reviews
                  ELSE /\ HasId(reviewers, d.reviewer_id[1])
                       /\ HasId(reviewed_objects, d.reviewed_object_id[1])
                       /\ ThumbsKnown(d.thumbs_rating)
                       /\ HasContent(d.text_review, d.star_rating,
                                     d.thumbs_rating)
                       => /\ c.outcome = "returned"
                          /\ reviews' = reviews \cup {c.ret[1]} ]_vars

C5_Witness ==
    /\ last.op = "create" /\ last.repo = "Review"
    /\ last.outcome = "ValueError"
    /\ HasContent(last.data.text_review, last.data.star_rating,
                  last.data.thumbs_rating)
    /\ Cardinality({r \in reviews :
                      /\ r.reviewer_id = last.data.reviewer_id
                      /\ r.reviewed_object_id = last.data.reviewed_object_id}) = 1

(***************************************************************************)
(* C6.  A review create for a stored reviewer and object with no review of *)
(* the pair yet succeeds exactly when star_rating is null or in 0..5,      *)
(* thumbs_rating is null, "up" or "down", and at least one of text_review, *)
(* star_rating and thumbs_rating is not null.                              *)
(***************************************************************************)
C6_CreateAcceptsExactlyValidContent ==
    [][ LET c == last'
            d == c.data
        IN  /\ c.op = "create" /\ c.repo = "Review"
            /\ tx[c.session] = "active"
            /\ HasId(reviewers, d.reviewer_id[1])
            /\ HasId(reviewed_objects, d.reviewed_object_id[1])
            /\ ~\E r \in reviews : /\ r.reviewer_id = d.reviewer_id
                                   /\ r.reviewed_object_id = d.reviewed_object_id
            => /\ c.outcome = "returned"
                  <=> /\ StarInRange(d.star_rating)
                      /\ ThumbsKnown(d.thumbs_rating)
                      /\ HasContent(d.text_review, d.star_rating,
                                    d.thumbs_rating)
               /\ c.outcome = "returned"
                  => /\ reviews' = reviews \cup {c.ret[1]}
                     /\ c.ret[1].star_rating = d.star_rating
                     /\ c.ret[1].thumbs_rating = d.thumbs_rating
                     /\ c.ret[1].text_review = d.text_review
               /\ c.outcome # "returned" => reviews' = reviews ]_vars

C6_Witness ==
    /\ last.op = "create" /\ last.repo = "Review"
    /\ last.outcome = "returned"
    /\ last.data.star_rating = Some(0)
    /\ last.data.text_review = None /\ last.data.thumbs_rating = None
    /\ last.ret[1] \in reviews

(***************************************************************************)
(* C7.  Whatever review creates and updates are made, every stored review  *)
(* has star_rating null or in 0..5, thumbs_rating null, "up" or "down",    *)
(* and at least one of its three content fields not null.                  *)
(***************************************************************************)
C7_StoredReviewsValid ==
    \A r \in reviews :
        /\ StarInRange(r.star_rating)
        /\ ThumbsKnown(r.thumbs_rating)
        /\ HasContent(r.text_review, r.star_rating, r.thumbs_rating)

C7_Witness ==
    /\ last.op = "update" /\ last.repo = "Review"
    /\ last.outcome = "ValueError"
    /\ \A f \in DOMAIN last.data : last.data[f] = None
    /\ reviews # {}

(***************************************************************************)
(* C8.  An update of a stored row that is carried out sets each field the  *)
(* payload provides to the provided value, null included, and leaves every *)
(* other field of that row, every other row and the other tables as they   *)
(* were.                                                                   *)
(***************************************************************************)
C8_UpdateChangesOnlyProvidedFields ==
    [][ LET c == last'
            T == Stored(c.repo)
            T2 == Rows(c.repo, reviewers', reviewed_objects', reviews')
        IN  /\ c.op = "update" /\ c.outcome = "returned" /\ c.ret # None
            => /\ HasId(T, c.id[1])
               /\ LET old == RowOf(T, c.id[1])
                      new == c.ret[1]
                  IN  /\ DOMAIN new = DOMAIN old
                      /\ \A f \in DOMAIN old :
                            new[f] = IF f \in DOMAIN c.data THEN c.data[f]
                                     ELSE old[f]
                      /\ T2 = (T \ {old}) \cup {new}
               /\ \A repo \in {"Reviewer", "ReviewedObject", "Review"} \ {c.repo} :
                     Rows(repo, reviewers', reviewed_objects', reviews')
                        = Stored(repo) ]_vars

C8_Witness ==
    /\ last.op = "update" /\ last.outcome = "returned" /\ last.ret # None
    /\ DOMAIN last.data = {"full_name", "email"}
    /\ last.data.full_name = None /\ last.ret[1].full_name = None
    /\ last.ret[1].email = last.data.email
    /\ last.ret[1].updated_at < now
    /\ \E r \in Stored(last.repo) : r # last.ret[1] /\ r.full_name # None

(***************************************************************************)
(* C9.  An update called with an id that is not stored returns None, does  *)
(* not raise, creates no row and leaves the three tables unchanged.        *)
(***************************************************************************)
C9_UpdateOfMissingIdReturnsNone ==
    [][ LET c == last'
        IN  /\ c.op = "update"
            /\ WriteEntered(c)
            /\ ~HasId(Stored(c.repo), c.id[1])
            => /\ c.outcome = "returned"
               /\ c.ret = None
               /\ tables' = tables ]_vars

C9_Witness ==
    /\ last.op = "update" /\ last.outcome = "returned" /\ last.ret = None
    /\ Stored(last.repo) # {}
    /\ ~HasId(Stored(last.repo), last.id[1])

(***************************************************************************)
(* C10.  A delete of an id that is not stored returns false and changes    *)
(* nothing; a delete of a stored row without dependents returns true and   *)
(* removes exactly that row; from then on get_by_id of that id returns     *)
(* None until a create stores a row with that id.                          *)
(***************************************************************************)
Dependents(repo, id) ==
    CASE repo = "Reviewer" -> {r \in reviews : r.reviewer_id = Some(id)}
      [] repo = "ReviewedObject" ->
            {r \in reviews : r.reviewed_object_id = Some(id)}
      [] repo = "Review" -> {}

C11_DeleteOfReferencedParentFails ==
    [][ LET c == last'
        IN  /\ c.op = "delete" /\ c.repo \in {"Reviewer", "ReviewedObject"}
            /\ tx[c.session] = "active"
            /\ HasId(Stored(c.repo), c.id[1])
            /\ Dependents(c.repo, c.id[1]) # {}
            => /\ c.outcome = "IntegrityError"
               /\ tables' = tables
               /\ HasId(Rows(c.repo, reviewers', reviewed_objects', reviews'),
                        c.id[1])
               /\ \A r \in Dependents(c.repo, c.id[1]) : r \in reviews' ]_vars

C11_Witness ==
    /\ last.op = "delete" /\ last.repo = "ReviewedObject"
    /\ last.outcome = "IntegrityError"
    /\ Cardinality(Dependents("ReviewedObject", last.id[1])) = 2
    /\ HasId(reviewed_objects, last.id[1])

(***************************************************************************)
(* C12.  A delete that fails because a review still references the row is  *)
(* surfaced like a constraint violation of create or update: it raises     *)
(* ValueError, the session has been rolled back, and the session takes the *)
(* next operation.                                                         *)
(***************************************************************************)
C12_FailedDeleteRaisesValueErrorAfterRollback ==
    [][ LET c == last'
        IN  /\ c.op = "delete" /\ c.repo \in {"Reviewer", "ReviewedObject"}
            /\ tx[c.session] = "active"
            /\ HasId(Stored(c.repo), c.id[1])
            /\ Dependents(c.repo, c.id[1]) # {}
            => /\ c.outcome = "ValueError"
               /\ tx'[c.session] = "active" ]_vars

(***************************************************************************)
(* C13.  A lookup (get_by_id, get_by_username, get_by_email,               *)
(* get_by_type_and_id, get_by_reviewer_and_object) never raises for        *)
(* absence: it returns None when no stored row has the key, returns a      *)
(* stored row with the key otherwise, and leaves the store as it was.      *)
(***************************************************************************)
Lookups ==
    {"get_by_id", "get_by_username", "get_by_email", "get_by_type_and_id",
     "get_by_reviewer_and_object"}

\* Row r has the key that lookup c asks for.
Matches(c, r) ==
    IF c.op = "get_by_id" THEN r.id = c.id[1]
    ELSE \A f \in DOMAIN c.data : r[f] = c.data[f]

C13_LookupReturnsNoneForAbsence ==
    [][ LET c == last'
            T == Stored(c.repo)
        IN  c.op \in Lookups /\ tx[c.session] = "active"
            => /\ c.outcome = "returned"
               /\ tables' = tables
               /\ (\A r \in T : ~Matches(c, r)) => c.ret = None
               /\ c.ret # None => c.ret[1] \in T /\ Matches(c, c.ret[1]) ]_vars

C13_Witness ==
    /\ last.op = "get_by_reviewer_and_object"
    /\ last.outcome = "returned" /\ last.ret = None
    /\ reviews # {} /\ Cardinality(reviewers) = 2

Repositories == {"Reviewer", "ReviewedObject", "Review"}

C15_LookupReturnsTheCreatedRow ==
    [][ LET c == last'
        IN  /\ c.op \in Lookups /\ tx[c.session] = "active"
               => \A r \in Stored(c.repo) : Matches(c, r) => c.ret = Some(r)
            /\ c.op = "create" /\ c.outcome = "returned"
               => c.ret[1] \in Rows(c.repo, reviewers', reviewed_objects',
                                    reviews')
            /\ \A repo \in Repositories : \A r \in Stored(repo) :
                  \/ r \in Rows(repo, reviewers', reviewed_objects', reviews')
                  \/ /\ c.repo = repo /\ c.op \in {"update", "delete"}
                     /\ c.id = Some(r.id) ]_vars

C15_Witness ==
    /\ last.op = "get_by_username" /\ last.outcome = "returned"
    /\ last.ret # None /\ last.ret[1].username = Some("bob")
    /\ last.ret[1].id = 2 /\ last.ret[1] \in reviewers
    /\ Cardinality(reviewers) = 2

(***************************************************************************)
(* C16.  With no write during paging, get_by_object pages                  *)
(* deterministically and without overlap: two calls in a row with the same *)
(* object, skip and limit return the same page; the pages at skip and at   *)
(* skip + limit share no review; and the pages at 0 and at limit, when     *)
(* they are long enough to hold all reviews of the object, hold each of    *)
(* them.                                                                   *)
(***************************************************************************)
PageIds(c) == {c.ret[1][i].id : i \in DOMAIN c.ret[1]}

C16_PagesPartitionTheReviews ==
    [][ LET a == last
            b == last'
            mine == {r \in reviews : r.reviewed_object_id
                                        = b.data.reviewed_object_id}
        IN  /\ a.op = "get_by_object" /\ b.op = "get_by_object"
            /\ a.outcome = "returned" /\ b.outcome = "returned"
            /\ a.data.reviewed_object_id = b.data.reviewed_object_id
            /\ a.data.limit = b.data.limit
            => /\ b.data.skip = a.data.skip => b.ret = a.ret
               /\ b.data.skip = a.data.skip + a.data.limit
                     => PageIds(a) \cap PageIds(b) = {}
               /\ /\ a.data.skip = 0 /\ b.data.skip = a.data.limit
                  /\ Cardinality(mine) <= 2 * a.data.limit
                  => PageIds(a) \cup PageIds(b) = {r.id : r \in mine} ]_vars

(***************************************************************************)
(* C17.  The statistics of a reviewed object report the number of its      *)
(* reviews, the mean of the star ratings that are present (absent when     *)
(* there is none, never a division by zero), and the numbers of "up" and   *)
(* of "down" thumbs; with no review the total is 0 and the mean absent.    *)
(***************************************************************************)
C17_StatisticsOfTheCommittedReviews ==
    [][ LET c == last'
            mine == {r \in reviews : r.reviewed_object_id = c.id}
            with(v) == Cardinality({r \in mine : r.star_rating = Some(v)})
            stats == c.ret[1]
        IN  /\ c.op = "statistics" /\ tx[c.session] = "active"
            /\ HasId(reviewed_objects, c.id[1])
            => /\ c.outcome = "returned" /\ c.ret # None
               /\ tables' = tables
               /\ stats.total_reviews = Cardinality(mine)
               /\ stats.thumbs_up_count + stats.thumbs_down_count
                     <= stats.total_reviews
               /\ stats.thumbs_up_count
                     = Cardinality({r \in mine : r.thumbs_rating = Some("up")})
               /\ stats.thumbs_down_count
                     = Cardinality({r \in mine : r.thumbs_rating = Some("down")})
               /\ stats.average_rating = None
                     <=> \A r \in mine : r.star_rating = None
               /\ stats.average_rating # None
                     => /\ stats.average_rating[1].count
                              = with(0) + with(1) + with(2) + with(3)
                                + with(4) + with(5)
                        /\ stats.average_rating[1].count > 0
                        /\ stats.average_rating[1].sum
                              = with(1) + 2 * with(2) + 3 * with(3)
                                + 4 * with(4) + 5 * with(5)
               /\ mine = {} => stats.total_reviews = 0
                               /\ stats.average_rating = None ]_vars

C17_Witness ==
    /\ last.op = "statistics" /\ last.outcome = "returned" /\ last.ret # None
    /\ last.ret[1].total_reviews = 2
    /\ last.ret[1].average_rating = Some([sum |-> 5, count |-> 1])
    /\ last.ret[1].thumbs_up_count = 1


(***************************************************************************)
(* C18.  When two callers on separate sessions each create a row and the   *)
(* two rows have the same unique key (the same username, the same email,   *)
(* the same (object_type, object_id) or the same (reviewer_id,             *)
(* reviewed_object_id)), a key no other stored row has, then under every   *)
(* interleaving of their statements exactly one create returns its row and *)
(* the other raises ValueError: never two successes, never two failures.   *)
(***************************************************************************)
SameKey(repo, a, b) ==
    CASE repo = "Reviewer" -> a.username = b.username \/ a.email = b.email
      [] repo = "ReviewedObject" ->
            a.object_type = b.object_type /\ a.object_id = b.object_id
      [] repo = "Review" ->
            /\ a.reviewer_id = b.reviewer_id
            /\ a.reviewed_object_id = b.reviewed_object_id

Over(s) == inflight[s] # None /\ inflight[s][1].stage \in {"returned", "ValueError"}

\* the reviewer and the reviewed object a new review names are stored
Refers(c) ==
    c.repo = "Review" =>
        /\ HasId(reviewers, c.data.reviewer_id[1])
        /\ HasId(reviewed_objects, c.data.reviewed_object_id[1])

\* a and b are two creates with the same unique key, free in the store
\* but for the rows of a and b themselves
Contend(a, b) ==
    /\ a.repo = b.repo
    /\ Refers(a) /\ Refers(b)
    /\ SameKey(a.repo, a.data, b.data)
    /\ \A r \in Stored(a.repo) :
          r.id \in {a.row.id, b.row.id}
          \/ (~SameKey(a.repo, r, a.data) /\ ~SameKey(a.repo, r, b.data))

C18_ConcurrentCreatesOfOneKey ==
    (Over("s1") /\ Over("s2") /\ Contend(inflight["s1"][1], inflight["s2"][1]))
    => LET a == inflight["s1"][1]
           b == inflight["s2"][1]
       IN  /\ {a.stage, b.stage} = {"returned", "ValueError"}
           /\ \A c \in {a, b} :
                 c.row \in Stored(c.repo) <=> c.stage = "returned"

\* the second INSERT met the open transaction of the first, waited for it
\* and then failed
C18_Witness ==
    /\ Over("s1") /\ Over("s2")
    /\ Contend(inflight["s1"][1], inflight["s2"][1])
    /\ inflight["s1"][1].stage = "returned"
    /\ inflight["s2"][1].stage = "ValueError"
    /\ inflight["s2"][1].blocked

(***************************************************************************)
(* C19.  The repository caches no row across calls: every lookup returns   *)
(* the committed state of the row it asks for, the stored row with the key *)
(* or None when no stored row has it, also when the session has read the   *)
(* row before and another session has since committed an update or a       *)
(* delete of it.                                                           *)
(***************************************************************************)
C19_ReadsReturnTheCommittedState ==
    [][ LET c == last'
            T == Stored(c.repo)
        IN  c.op \in Lookups /\ tx[c.session] = "active"
            => /\ c.outcome = "returned"
               /\ c.ret = None <=> (\A r \in T : ~Matches(c, r))
               /\ c.ret # None => c.ret[1] \in T /\ Matches(c, c.ret[1]) ]_vars

(***************************************************************************)
(* C20.  The identity fields of a review are immutable: a                  *)
(* ReviewRepository.update call leaves the id, reviewer_id and             *)
(* reviewed_object_id of every stored review as they were and adds or      *)
(* removes no review; the only fields it can change are text_review,       *)
(* star_rating and thumbs_rating.  Holding at every call, it holds over    *)
(* every sequence of calls.                                                *)
(***************************************************************************)
ContentFields == {"text_review", "star_rating", "thumbs_rating"}

C20_ReviewIdentityIsImmutable ==
    [][ LET c == last'
        IN  c.op = "update" /\ c.repo = "Review"
            => /\ {r.id : r \in reviews'} = {r.id : r \in reviews}
               /\ \A r \in reviews : \A q \in reviews' :
                     q.id = r.id =>
                        \A f \in DOMAIN r \ ContentFields : q[f] = r[f] ]_vars

\* an update has changed the content of a review of reviewer 1
C20_Witness ==
    /\ last.op = "update" /\ last.repo = "Review"
    /\ last.outcome = "returned" /\ last.ret # None
    /\ last.ret[1] \in reviews
    /\ last.ret[1].star_rating = Some(5)
    /\ last.ret[1].reviewer_id = Some(1)
    /\ Cardinality(reviews) = 2

(***************************************************************************)
(* C21.  get_by_object(object_id, skip, limit) returns only stored reviews *)
(* whose reviewed_object_id is object_id and at most limit of them; with   *)
(* skip = 0 and limit at least the number of reviews of the object it      *)
(* returns each of them exactly once.                                      *)
(***************************************************************************)
C21_GetByObjectFiltersAndLimits ==
    [][ LET c == last'
            mine == {r \in reviews : r.reviewed_object_id
                                        = c.data.reviewed_object_id}
        IN  c.op = "get_by_object" /\ tx[c.session] = "active"
            => /\ c.outcome = "returned" /\ c.ret # None
               /\ \A i \in DOMAIN c.ret[1] : c.ret[1][i] \in mine
               /\ Len(c.ret[1]) <= c.data.limit
               /\ c.data.skip = 0 /\ c.data.limit >= Cardinality(mine)
                     => /\ Len(c.ret[1]) = Cardinality(mine)
                        /\ {c.ret[1][i] : i \in DOMAIN c.ret[1]} = mine ]_vars

\* two reviews by two reviewers on one object: the list holds both
C21_Witness ==
    /\ last.op = "get_by_object" /\ last.outcome = "returned"
    /\ Len(last.ret[1]) = 2
    /\ last.ret[1][1].reviewer_id # last.ret[1][2].reviewer_id
    /\ {last.ret[1][1].star_rating, last.ret[1][2].star_rating}
          = {Some(5), Some(3)}
    /\ \A i \in 1..2 : last.ret[1][i].reviewed_object_id = Some(1)

(***************************************************************************)
(* C22.  Referential integrity holds in every reachable state, under every *)
(* interleaving of the statements of two sessions: the reviewer_id of each *)
(* stored review is the id of a stored reviewer and its reviewed_object_id *)
(* the id of a stored reviewed object.  A create of a review that names a  *)
(* reviewer or a reviewed object that is not stored raises ValueError and  *)
(* stores nothing.                                                         *)
(***************************************************************************)
Referenced(R, O, V) ==
    \A r \in V : /\ r.reviewer_id # None /\ r.reviewed_object_id # None
                 /\ HasId(R, r.reviewer_id[1])
                 /\ HasId(O, r.reviewed_object_id[1])

C22_ReferentialIntegrity ==
    [][ /\ Referenced(reviewers', reviewed_objects', reviews')
        /\ LET c == last'
           IN  /\ c.op = "create" /\ c.repo = "Review"
               /\ tx[c.session] = "active"
               /\ \/ ~HasId(reviewers, c.data.reviewer_id[1])
                  \/ ~HasId(reviewed_objects, c.data.reviewed_object_id[1])
               => /\ c.outcome = "ValueError"
                  /\ tables' = tables ]_vars

\* a create of a review waited for the delete of its reviewer by the other
\* session and then failed; a delete waited for a create and then failed
C22_Witness ==
    /\ last.op = "create" /\ last.repo = "Review"
    /\ last.outcome = "ValueError"
    /\ last.data.reviewer_id = Some(1)
    /\ inflight[last.session] # None /\ inflight[last.session][1].blocked
    /\ reviewers = {} /\ reviews = {}


(***************************************************************************)
(* C23.  A constraint-violation error names the attempted operation and    *)
(* the entity: the message of the ValueError of a failed create begins     *)
(* "<Entity> creation failed" and that of a failed update "<Entity> update *)
(* failed", <Entity> being "Reviewer", "Reviewed object" or "Review" after *)
(* the repository called, and it goes on with the report of the storage    *)
(* engine, which names a constraint that the attempted write breaks.       *)
(***************************************************************************)
Broken(c) ==
    LET d == c.data
        T == Stored(c.repo)
        old == IF c.op = "update" /\ HasId(T, c.id[1]) THEN RowOf(T, c.id[1])
               ELSE d
        v(f) == Provided(d, f, old)
    IN
    CASE c.repo = "Reviewer" ->
            Named("not-null constraint", v("username") = None \/ v("email") = None)
            \cup Named("ix_reviewers_username",
                       \E r \in T \ {old} : r.username = v("username"))
            \cup Named("ix_reviewers_email",
                       \E r \in T \ {old} : r.email = v("email"))
      [] c.repo = "ReviewedObject" ->
            Named("not-null constraint",
                  \/ v("object_type") = None \/ v("object_id") = None
                  \/ v("object_name") = None)
            \cup Named("uq_object_type_id",
                       \E r \in T \ {old} :
                          /\ r.object_type = v("object_type")
                          /\ r.object_id = v("object_id"))
      [] c.repo = "Review" ->
            Named("check_star_rating_range", ~StarInRange(v("star_rating")))
            \cup Named("check_thumbs_rating_values",
                       ~ThumbsKnown(v("thumbs_rating")))
            \cup Named("check_review_content_exists",
                       ~HasContent(v("text_review"), v("star_rating"),
                                   v("thumbs_rating")))
            \cup Named("uq_reviewer_object",
                       \E r \in T \ {old} :
                          /\ r.reviewer_id = v("reviewer_id")
                          /\ r.reviewed_object_id = v("reviewed_object_id"))
            \cup Named("reviews_reviewer_id_fkey",
                       ~HasId(reviewers, v("reviewer_id")[1]))
            \cup Named("reviews_reviewed_object_id_fkey",
                       ~HasId(reviewed_objects, v("reviewed_object_id")[1]))

C23_ErrorNamesOperationAndConstraint ==
    [][ LET c == last'
        IN  c.outcome = "ValueError"
            => /\ c.op \in {"create", "update"}
               /\ \E e \in Broken(c) :
                     c.message = FailureMessage(c) \o ": " \o e ]_vars

\* a failed update of a reviewed object and its message
C23_Witness ==
    /\ last.op = "update" /\ last.repo = "ReviewedObject"
    /\ last.outcome = "ValueError"
    /\ last.message = "Reviewed object update failed: not-null constraint"
    /\ reviewers # {}

(***************************************************************************)
(* C24.  After a create or update has failed with a constraint violation   *)
(* the session is usable: the same call made again on the unchanged store  *)
(* fails again with the same error, and a following create or update on    *)
(* the same session whose input is valid and breaks no constraint returns  *)
(* its row, which is then stored.                                          *)
(***************************************************************************)
C24_SessionUsableAfterFailedWrite ==
    [][ LET a == last
            b == last'
        IN  /\ a.outcome = "ValueError" /\ b.session = a.session
            /\ b.op \in {"create", "update"}
            => /\ tx[a.session] = "active"
               /\ (b.op = a.op /\ b.repo = a.repo /\ b.id = a.id
                     /\ b.data = a.data)
                  => /\ b.outcome = "ValueError" /\ b.message = a.message
                     /\ tables' = tables
               /\ /\ ShapeAccepted(b) /\ ~BreaksConstraint(b)
                  /\ b.op = "update" => HasId(Stored(b.repo), b.id[1])
                  => /\ b.outcome = "returned" /\ b.ret # None
                     /\ b.ret[1] \in Rows(b.repo, reviewers', reviewed_objects',
                                          reviews') ]_vars

\* no row is deleted here, so the create of the review with id 1 failed and
\* the create that followed it on the same session is stored
C24_Witness ==
    /\ last.op = "create" /\ last.repo = "Review"
    /\ last.outcome = "returned"
    /\ last.ret[1].id = 2
    /\ reviews = {last.ret[1]}


(***************************************************************************)
(* C25.  Creation timestamps follow creation order: of two stored rows of  *)
(* one table the one created first (ids are handed out in the order of the *)
(* creates) has the earlier created_at, and every stored created_at is     *)
(* earlier than the time the clock shows once the create has returned.     *)
(***************************************************************************)
C25_CreatedAtFollowsCreationOrder ==
    \A T \in {reviewers, reviewed_objects, reviews} :
        /\ \A r1, r2 \in T : r1.id < r2.id => r1.created_at < r2.created_at
        /\ \A r \in T : r.created_at < now

(***************************************************************************)
(* C26.  update never refreshes the timestamps: an update that is carried  *)
(* out returns and stores the row with the created_at and the updated_at   *)
(* it had before, so through every sequence of updates they stay the       *)
(* values stamped by the create; the timestamps of the other rows stay as  *)
(* well.                                                                   *)
(***************************************************************************)
Stamps(T) == {<<r.id, r.created_at, r.updated_at>> : r \in T}

C26_UpdateKeepsTimestamps ==
    [][ LET c == last'
        IN  c.op = "update"
            => /\ \A repo \in Repositories :
                     Stamps(Rows(repo, reviewers', reviewed_objects', reviews'))
                        = Stamps(Stored(repo))
               /\ c.outcome = "returned" /\ c.ret # None
                  => <<c.ret[1].id, c.ret[1].created_at, c.ret[1].updated_at>>
                        \in Stamps(Stored(c.repo)) ]_vars

\* an update carried out after the clock has moved on from the updated_at
\* of the row
C26_Witness ==
    /\ last.op = "update" /\ last.repo = "Reviewer"
    /\ last.outcome = "returned" /\ last.ret # None
    /\ last.ret[1] \in reviewers
    /\ "username" \in DOMAIN last.data
    /\ last.ret[1].username = last.data.username
    /\ last.ret[1].updated_at < now

(***************************************************************************)
(* C27.  The id of a created entity is assigned by the repository and is   *)
(* fresh: the create shape carries no id and no timestamp, the id of the   *)
(* row a create returns is none that the table holds or has held before,   *)
(* so the ids of a table are unique in every state and the id of a deleted *)
(* row is never handed out again.                                          *)
(***************************************************************************)
\* The ids handed out so far for the table of repo.
HandedOut(repo) ==
    CASE repo = "Reviewer" -> 1..ids.reviewer
      [] repo = "ReviewedObject" -> 1..ids.object
      [] repo = "Review" -> 1..ids.review

C27_IdsAreFresh ==
    [][ /\ \A repo \in Repositories :
              LET T == Rows(repo, reviewers', reviewed_objects', reviews')
              IN  /\ \A r1, r2 \in T : r1.id = r2.id => r1 = r2
                  /\ \A r \in Stored(repo) : r.id \in HandedOut(repo)
        /\ LET c == last'
           IN  c.op = "create"
               => /\ DOMAIN c.data \cap {"id", "created_at", "updated_at"} = {}
                  /\ c.outcome = "returned"
                     => /\ c.ret[1].id \notin HandedOut(c.repo)
                        /\ ~HasId(Stored(c.repo), c.ret[1].id) ]_vars

\* a reviewer created after the reviewer with id 1 was deleted
C27_Witness ==
    /\ last.op = "create" /\ last.repo = "Reviewer"
    /\ last.outcome = "returned"
    /\ last.ret[1].id = 2
    /\ reviewers = {last.ret[1]}


(***************************************************************************)
(* Callers that delete rows and create them again under the key the        *)
(* deleted row had: one username and email, one (object_type, object_id),  *)
(* and reviews of object 1.                                                *)
(***************************************************************************)
RecreatedReviewers ==
    { [username |-> Some("alice"), email |-> Some("a@x.org"), full_name |-> f] :
         f \in FullNames }

RecreatedReviews ==
    { [reviewer_id |-> Some(1), reviewed_object_id |-> Some(1),
       text_review |-> t, star_rating |-> Some(5), thumbs_rating |-> th] :
         t \in Texts, th \in {None, Some("up")} }

RecreateNext ==
    \E s \in Sessions :
        \/ \E data \in RecreatedReviewers : ReviewerRepository_create(s, data, 0)
        \/ \E id \in RowIds : ReviewerRepository_delete(s, id)
        \/ \E data \in SomeReviewedObjectCreates :
              ReviewedObjectRepository_create(s, data, 0)
        \/ \E id \in RowIds : ReviewedObjectRepository_delete(s, id)
        \/ \E data \in RecreatedReviews : ReviewRepository_create(s, data, 0)
        \/ \E id \in RowIds : ReviewRepository_delete(s, id)

SpecRecreate == InitPopulated /\ [][RecreateNext]_vars

(***************************************************************************)
(* C28.  Uniqueness constrains only the rows that are stored: once a row   *)
(* is deleted its unique key is free, and a create with a key that no      *)
(* stored row has succeeds and yields a row with a new id, whether or not  *)
(* a deleted row had that key.                                             *)
(***************************************************************************)
\* Nothing but a uniqueness constraint can stand in the way of create c.
OnlyKeyAtStake(c) ==
    /\ ShapeAccepted(c)
    /\ c.repo = "Review"
          => /\ Refers(c)
             /\ StarInRange(c.data.star_rating)
             /\ ThumbsKnown(c.data.thumbs_rating)
             /\ HasContent(c.data.text_review, c.data.star_rating,
                           c.data.thumbs_rating)

C28_DeletedKeyCanBeCreatedAgain ==
    [][ LET c == last'
            T == Rows(c.repo, reviewers', reviewed_objects', reviews')
        IN  tx[c.session] = "active"
            => /\ (c.op = "delete" /\ c.outcome = "returned" /\ c.ret = Some(TRUE))
                  => /\ HasId(Stored(c.repo), c.id[1])
                     /\ ~HasId(T, c.id[1])
                     /\ \A r \in T :
                           ~SameKey(c.repo, r, RowOf(Stored(c.repo), c.id[1]))
               /\ (/\ c.op = "create"
                   /\ OnlyKeyAtStake(c)
                   /\ \A r \in Stored(c.repo) : ~SameKey(c.repo, r, c.data))
                  => /\ c.outcome = "returned"
                     /\ c.ret[1].id \notin HandedOut(c.repo)
                     /\ SameKey(c.repo, c.ret[1], c.data)
                     /\ T = Stored(c.repo) \cup {c.ret[1]} ]_vars

\* the review of reviewer 1 for object 1 was deleted and created again
C28_Witness ==
    /\ last.op = "create" /\ last.repo = "Review"
    /\ last.outcome = "returned"
    /\ ids.review = 2
    /\ last.ret[1].id = 2
    /\ last.ret[1].reviewer_id = Some(1)
    /\ last.ret[1].reviewed_object_id = Some(1)
    /\ \A r \in reviews : r.id = 2


(***************************************************************************)
(* C29.  update() is idempotent and an empty update changes nothing: the   *)
(* same partial data applied to the same id a second time in a row leaves  *)
(* the store as the first application left it,                             *)
(* and an update that provides no field, of a stored row, returns that row *)
(* and leaves the store unchanged.                                         *)
(***************************************************************************)
C29_UpdateIsIdempotent ==
    [][ LET c == last'
        IN  c.op = "update"
            => /\ (/\ last.op = "update" /\ last.repo = c.repo
                   /\ last.session = c.session
                   /\ last.id = c.id /\ last.data = c.data)
                  => tables' = tables
               /\ (/\ DOMAIN c.data = {}
                   /\ tx[c.session] = "active"
                   /\ HasId(Stored(c.repo), c.id[1]))
                  => /\ c.outcome = "returned"
                     /\ c.ret = Some(RowOf(Stored(c.repo), c.id[1]))
                     /\ tables' = tables ]_vars

\* an update with no field provided came back with the stored reviewer
C29_Witness ==
    /\ last.op = "update" /\ last.repo = "Reviewer"
    /\ DOMAIN last.data = {}
    /\ last.outcome = "returned"
    /\ last.ret # None
    /\ last.ret[1] \in reviewers


(***************************************************************************)
(* scripts/populate_db.py: create_reviews(session, reviewers, restaurants,  *)
(* count).  The run of the script is what the caller of session s1 has     *)
(* begun: inflight holds its arguments and local variables, and submitted  *)
(* records the shapes it has handed to ReviewRepository.create.            *)
(***************************************************************************)
star_distribution == 1..5

REVIEW_TEXTS == [rating \in star_distribution |-> {"fine"}]

ReviewTypes == {"text_star", "text_only", "star_only", "thumbs_only", "mixed"}

max_attempts(count) == count * 3

\* "if combo_key in used_combinations" with the check left out
AlreadyUsed_Never(combo_key, used_combinations) == FALSE

AlreadyUsed(combo_key, used_combinations) == combo_key \in used_combinations

\* The content of one review: drawn is the rating drawn where the type
\* draws one, text the text drawn for it, thumbs the thumb drawn where one
\* is drawn, contradict the outcome of "random.random() < 0.1".
ReviewContent(review_type, drawn, text, thumbs, contradict) ==
    LET text_review ==
            IF review_type \in {"text_star", "text_only", "mixed"}
            THEN Some(text) ELSE None
        star_rating ==
            IF review_type \in {"text_star", "mixed", "star_only"}
            THEN Some(drawn) ELSE None
        by_sentiment ==
            IF review_type \in {"thumbs_only", "mixed"}
            THEN IF star_rating # None
                 THEN (IF star_rating[1] >= 4 THEN Some("up") ELSE Some("down"))
                 ELSE Some(thumbs)
            ELSE None
        thumbs_rating ==
            IF review_type = "mixed" /\ contradict THEN Some(thumbs)
            ELSE by_sentiment
    IN  [text_review |-> text_review, star_rating |-> star_rating,
         thumbs_rating |-> thumbs_rating]

\* The script at the head of its loop.
Running(s) == inflight[s] # None /\ inflight[s][1].stage = "loop"

\* One pass of "while len(reviews) < count and attempts < max_attempts".
create_reviews_iteration(s) ==
    /\ Running(s)
    /\ LET f == inflight[s][1]
       IN  /\ Len(f.reviews) < f.count
           /\ f.attempts < max_attempts(f.count)
           /\ IF f.reviewers = {} \/ f.restaurants = {}
              THEN \* random.choice of an empty list raises IndexError
                   /\ inflight' = [inflight EXCEPT ![s] =
                         Some([f EXCEPT !.attempts = @ + 1,
                                        !.stage = "IndexError"])]
                   /\ UNCHANGED <<tables, ids, now, tx, identity, last>>
              ELSE \E reviewer \in f.reviewers, restaurant \in f.restaurants :
                   LET combo_key == <<reviewer.id, restaurant.id>>
                   IN  IF AlreadyUsed(combo_key, f.used_combinations)
                       THEN \* continue
                            /\ inflight' = [inflight EXCEPT ![s] =
                                  Some([f EXCEPT !.attempts = @ + 1])]
                            /\ UNCHANGED <<tables, ids, now, tx, identity, last>>
                       ELSE \E review_type \in ReviewTypes,
                               drawn \in star_distribution,
                               thumbs \in {"up", "down"},
                               contradict \in BOOLEAN :
                            \E text \in REVIEW_TEXTS[drawn] :
                            LET content == ReviewContent(review_type, drawn,
                                                         text, thumbs, contradict)
                                review_data ==
                                   [reviewer_id |-> Some(reviewer.id),
                                    reviewed_object_id |-> Some(restaurant.id),
                                    text_review |-> content.text_review,
                                    star_rating |-> content.star_rating,
                                    thumbs_rating |-> content.thumbs_rating]
                            IN  /\ ReviewRepository_create_call(s, review_data, 0)
                                /\ inflight' = [inflight EXCEPT ![s] =
                                      Some([f EXCEPT
                                         !.attempts = @ + 1,
                                         !.used_combinations =
                                             @ \cup {combo_key},
                                         !.submitted = Append(@, review_data),
                                         !.reviews =
                                             IF last'.outcome = "returned"
                                             THEN Append(@, last'.ret[1])
                                             ELSE @])]

\* The loop condition fails: "return reviews".
create_reviews_return(s) ==
    /\ Running(s)
    /\ LET f == inflight[s][1]
       IN  /\ ~(Len(f.reviews) < f.count /\ f.attempts < max_attempts(f.count))
           /\ inflight' = [inflight EXCEPT ![s] =
                              Some([f EXCEPT !.stage = "returned"])]
    /\ last' = Call("create_reviews", "Review", s, None, None, "returned", "",
                    Some(inflight[s][1].reviews))
    /\ UNCHANGED <<tables, ids, now, tx, identity>>

\* A store of two reviewers and one restaurant, empty of reviews or with
\* the review of reviewer 1, and a run of the script on reviewers and
\* restaurants of the store that has enough ids left for every pair.
InitCreateReviews ==
    /\ reviewers =
          { Reviewer_model_validate(
                [username |-> Some("alice"), email |-> Some("a@x.org"),
                 full_name |-> None], 1, 0, 0),
            Reviewer_model_validate(
                [username |-> Some("bob"), email |-> Some("b@x.org"),
                 full_name |-> None], 2, 0, 0) }
    /\ reviewed_objects =
          { ReviewedObject_model_validate(
                [object_type |-> Some("restaurant"), object_id |-> Some("ext1"),
                 object_name |-> Some("Name"), object_description |-> None,
                 object_metadata |-> None], 1, 0, 0) }
    /\ reviews \in
          { {},
            { Review_model_validate(
                 [reviewer_id |-> Some(1), reviewed_object_id |-> Some(1),
                  text_review |-> Some("fine"), star_rating |-> None,
                  thumbs_rating |-> None], 1, 0, 0) } }
    /\ ids = [reviewer |-> 2, object |-> 1, review |-> Cardinality(reviews)]
    /\ now = 0
    /\ tx = [s \in ConcurrentSessions |-> "active"]
    /\ identity = [s \in ConcurrentSessions |-> Expired]
    /\ \E count \in 0..MaxIds, R \in SUBSET reviewers,
          O \in SUBSET reviewed_objects :
          /\ ids.review + Cardinality(R) * Cardinality(O) <= MaxIds
          /\ inflight =
                [s \in ConcurrentSessions |->
                    IF s = "s1"
                    THEN Some([op |-> "create_reviews", count |-> count,
                               reviewers |-> R, restaurants |-> O,
                               reviews |-> <<>>, used_combinations |-> {},
                               attempts |-> 0, submitted |-> <<>>,
                               stage |-> "loop"])
                    ELSE None]
    /\ last = NoCall

CreateReviewsNext ==
    \E s \in Sessions :
        \/ create_reviews_iteration(s)
        \/ create_reviews_return(s)

\* The script runs on: a pass of the loop that can be made is made.
SpecCreateReviews ==
    InitCreateReviews /\ [][CreateReviewsNext]_vars /\ WF_vars(CreateReviewsNext)

(***************************************************************************)
(* C30.  The loop of create_reviews always terminates: it makes at most    *)
(* 3*count passes and returns at most count reviews, it never hands the    *)
(* same (reviewer, restaurant) pair to ReviewRepository.create twice, and  *)
(* every review it hands over has a content field that is not null, a      *)
(* star_rating that is null or in 1..5 and a thumbs_rating that is null,   *)
(* 'up' or 'down'.                                                         *)
(***************************************************************************)
Script == inflight["s1"][1]

C30_CreateReviewsTerminates ==
    /\ [](/\ Script.attempts <= 3 * Script.count
          /\ Len(Script.reviews) <= Script.count
          /\ Len(Script.submitted) <= Script.attempts
          /\ ids.review - Len(Script.submitted) \in {0, 1}
          /\ \A i, j \in DOMAIN Script.submitted :
                (/\ Script.submitted[i].reviewer_id
                       = Script.submitted[j].reviewer_id
                 /\ Script.submitted[i].reviewed_object_id
                       = Script.submitted[j].reviewed_object_id) => i = j
          /\ \A i \in DOMAIN Script.submitted :
                LET d == Script.submitted[i]
                IN  /\ HasContent(d.text_review, d.star_rating, d.thumbs_rating)
                    /\ d.star_rating = None \/ d.star_rating[1] \in 1..5
                    /\ ThumbsKnown(d.thumbs_rating))
    /\ <>(Script.stage # "loop")

\* the loop was ended by the bound on its passes: one review was refused
\* by the store, the other passes drew the pair again
C30_Witness ==
    /\ Script.stage = "returned"
    /\ Script.count > 0
    /\ Script.attempts = 3 * Script.count
    /\ Len(Script.reviews) < Script.count
    /\ Len(Script.submitted) > Len(Script.reviews)
    /\ Len(Script.submitted) < Script.attempts
====
